---- MODULE Spec2Model ----
(***************************************************************************)
(* Model of the thread-local contract-storage example of tempo             *)
(* (crates/precompiles/src/thread_local_example/mod.rs): two native        *)
(* contracts, ThreadLocalToken and ThreadLocalRewards, whose handlers read *)
(* and write a storage provider through the address on top of a           *)
(* thread-local context stack.                                             *)
(* The second half models the build-time side, crates/precompiles-macros:  *)
(* the interface catalogue (interface/mod.rs and its registry), the        *)
(* dispatcher generated from it, and the storage layout of a contract      *)
(* struct with the code layout.rs generates for it.                        *)
(* The last part models the binaries: tempo-bench (config.rs, max_tps.rs)  *)
(* and tempo-state-dump (main.rs).                                         *)
(***************************************************************************)
EXTENDS Integers, Sequences, FiniteSets, TLC

VARIABLES
    stack,      \* the thread-local context stack: the addresses of the live AddressGuards
    storage,    \* the storage provider: a partial map <<address, slot>> -> word
    frames,     \* the activations of call_mut / staticcall that have not returned yet
    pc,         \* where the running code is: "run", "err", "twr_*" or "rt_*"
    twr,        \* the locals of the transfer_with_rewards in progress
    ret,        \* what the last call returned: "none" for Ok, or the error
    writes,     \* number of mutating handler calls so far
    lim,        \* what the run explores: [depth, writes, mints, pairs, amounts]
    build,      \* the expansion of #[contract(..)] in progress (precompiles-macros)
    tool        \* the run of a binary in progress (tempo-bench, tempo-state-dump)

vars == <<stack, storage, frames, pc, twr, ret, writes, lim, build, tool, tool>>

----------------------------------------------------------------------------
(* Bounds of the model *)

\* U256 is modelled as an unsigned integer of UBits bits.
UBits == 10
\* Spec: deepest nesting of call_mut / staticcall, and number of mutating
\* handler calls in one run
MaxDepth == 2
MaxWrites == 2
\* TokenSpec: number of mutating handler calls in one run (one frame at a time)
TokenWrites == 3

----------------------------------------------------------------------------
(* Values *)

U256Modulus == 2 ^ UBits

\* U256 `+` and `-` (ruint): wrapping at the width of the type
U256Add(a, b) == (a + b) % U256Modulus
U256Sub(a, b) == (a - b + U256Modulus) % U256Modulus

\* addresses are written as the byte they repeat: Address::new([0x01; 20]) is 1
token_address == 1
REWARDS_ADDRESS == 238
alice == 161
bob == 176

\* the addresses a frame is opened on, the accounts and the amounts of the calls
TokenAddresses == {token_address, REWARDS_ADDRESS}
RewardsAddresses == {REWARDS_ADDRESS}
Accounts == {alice, bob}
Amounts == {100, 1000}
\* Spec: the accounts minted to and the (from, to) pairs of the transfers
CtxMints == {alice}
CtxPairs == {<<alice, bob>>}

NoActiveContext == "NoActiveContext"
ClosureError == "ClosureError"

----------------------------------------------------------------------------
(* Context stack (storage::thread_local::context, AddressGuard) *)

AddressGuard_new(stk, address) == Append(stk, address)

AddressGuard_drop(stk) == SubSeq(stk, 1, Len(stk) - 1)

call_depth(stk) == Len(stk)

\* Result values: err = "none" is Ok(val); st is the provider after the call
Ok(v, st) == [err |-> "none", val |-> v, st |-> st]
Err(e, st) == [err |-> e, val |-> 0, st |-> st]

current_address(stk) ==
    IF stk = <<>> THEN Err(NoActiveContext, <<>>) ELSE Ok(stk[Len(stk)], <<>>)

----------------------------------------------------------------------------
(* Storage provider and typed handlers *)

\* get: an unwritten cell reads as the zero word
sload(st, address, slot) ==
    IF <<address, slot>> \in DOMAIN st THEN st[<<address, slot>>] ELSE 0

sstore(st, address, slot, value) ==
    [c \in DOMAIN st \cup {<<address, slot>>} |->
        IF c = <<address, slot>> THEN value ELSE st[c]]

\* Slot::new(n): the scalar slot n
Slot_new(n) == <<n>>

\* Mapping::at: the slot of a key is the hash of (key || base slot), kept as
\* its preimage (a collision-free hash)
Mapping_at(base, key) == <<key, base>>

read_tl(stk, st, slot) ==
    IF stk = <<>> THEN Err(NoActiveContext, st)
    ELSE Ok(sload(st, stk[Len(stk)], slot), st)

write_tl(stk, st, slot, value) ==
    IF stk = <<>> THEN Err(NoActiveContext, st)
    ELSE Ok(0, sstore(st, stk[Len(stk)], slot, value))

----------------------------------------------------------------------------
(* ThreadLocalToken *)

\* _new(): total_supply is Slot::new(U256::ZERO), balances is Mapping::new(U256::ONE)
Token_total_supply_slot == Slot_new(0)
Token_balances_base == 1

\* total_supply with the error of the read dropped for a default
total_supply_or_default(stk, st) ==
    IF stk = <<>> THEN Ok(0, st) ELSE read_tl(stk, st, Token_total_supply_slot)

total_supply(stk, st) == read_tl(stk, st, Token_total_supply_slot)

set_total_supply(stk, st, value) == write_tl(stk, st, Token_total_supply_slot, value)

\* balance_of reading the mapping at another base slot than set_balance writes
balance_of_wrong_base(stk, st, account) ==
    read_tl(stk, st, Mapping_at(Token_balances_base + 1, account))

balance_of(stk, st, account) ==
    read_tl(stk, st, Mapping_at(Token_balances_base, account))

set_balance(stk, st, account, balance) ==
    write_tl(stk, st, Mapping_at(Token_balances_base, account), balance)

\* each `?` returns the error of the call it follows
mint(stk, st, to, amount) ==
    LET balance == balance_of(stk, st, to) IN
    IF balance.err # "none" THEN balance ELSE
    LET supply == total_supply(stk, st) IN
    IF supply.err # "none" THEN supply ELSE
    LET w1 == set_balance(stk, st, to, U256Add(balance.val, amount)) IN
    IF w1.err # "none" THEN w1 ELSE
    set_total_supply(stk, w1.st, U256Add(supply.val, amount))

transfer(stk, st, from, to, amount) ==
    LET from_balance == balance_of(stk, st, from) IN
    IF from_balance.err # "none" THEN from_balance ELSE
    LET to_balance == balance_of(stk, st, to) IN
    IF to_balance.err # "none" THEN to_balance ELSE
    LET w1 == set_balance(stk, st, from, U256Sub(from_balance.val, amount)) IN
    IF w1.err # "none" THEN w1 ELSE
    set_balance(stk, w1.st, to, U256Add(to_balance.val, amount))

----------------------------------------------------------------------------
(* ThreadLocalRewards *)

\* _new(): rewards_pool is Slot::new(U256::ZERO)
Rewards_pool_slot == Slot_new(0)

RewardDivisor == 100

distribute(stk, st, transfer_amount) ==
    LET reward == transfer_amount \div RewardDivisor
        pool == read_tl(stk, st, Rewards_pool_slot)
    IN  IF pool.err # "none" THEN pool
        ELSE write_tl(stk, st, Rewards_pool_slot, U256Add(pool.val, reward))

get_pool(stk, st) == read_tl(stk, st, Rewards_pool_slot)

----------------------------------------------------------------------------
(* State *)

\* twr: the arguments of the transfer_with_rewards in progress, and the storage
\* (st0) and call depth it was called with
NoTwr == [from |-> 0, to |-> 0, amount |-> 0, st0 |-> <<>>, depth |-> 0]

\* build: no macro expansion is in progress while the contracts run
NoBuild == [stage |-> "none"]
NoTool == [stage |-> "none"]

Frame(contract, kind, address, before) ==
    [contract |-> contract, kind |-> kind, address |-> address, before |-> before]

Init ==
    /\ stack = <<>>
    /\ storage = <<>>
    /\ frames = <<>>
    /\ pc = "run"
    /\ twr = NoTwr
    /\ ret = "none"
    /\ writes = 0
    /\ lim = [depth |-> MaxDepth, writes |-> MaxWrites, mints |-> CtxMints,
              pairs |-> CtxPairs, amounts |-> Amounts]
    /\ build = NoBuild
    /\ tool = NoTool

TopFrame == frames[Len(frames)]

\* The running code holds an instance of `contract`: the one its closure was
\* given (&mut Self in call_mut, &Self in staticcall), or outside every frame
\* one made by _new().
HasInstance(contract, mutable) ==
    /\ pc = "run"
    /\ frames # <<>> =>
        /\ TopFrame.contract = contract
        /\ mutable => TopFrame.kind = "call_mut"

----------------------------------------------------------------------------
(* call_mut / staticcall *)

\* the closure run with no guard made for it
Enter_no_guard(contract, kind, address) ==
    /\ stack' = stack
    /\ frames' = Append(frames, Frame(contract, kind, address, stack))

\* the guard made for the caller's address instead of the callee's
Enter_caller_address(contract, kind, address) ==
    /\ stack' = AddressGuard_new(stack, IF stack = <<>> THEN address ELSE stack[Len(stack)])
    /\ frames' = Append(frames, Frame(contract, kind, address, stack))

\* let _guard = AddressGuard::new(address)?; ... f(&mut instance)
Enter(contract, kind, address) ==
    /\ stack' = AddressGuard_new(stack, address)
    /\ frames' = Append(frames, Frame(contract, kind, address, stack))

\* the guard released only when the closure returned Ok
guard_leak_on_err(stk, outcome) ==
    IF outcome = "none" THEN AddressGuard_drop(stk) ELSE stk

\* _guard goes out of scope as call_mut / staticcall returns what f returned
guard_scope_exit(stk, outcome) == AddressGuard_drop(stk)

Leave(outcome) ==
    /\ frames # <<>>
    /\ stack' = guard_scope_exit(stack, outcome)
    /\ frames' = SubSeq(frames, 1, Len(frames) - 1)
    /\ ret' = outcome

Token_staticcall(address) ==
    /\ pc = "run"
    /\ Len(frames) < lim.depth
    /\ Enter("Token", "staticcall", address)
    /\ UNCHANGED <<storage, pc, twr, ret, writes, lim, build, tool>>

Token_call_mut(address) ==
    /\ pc = "run"
    /\ Len(frames) < lim.depth
    /\ Enter("Token", "call_mut", address)
    /\ UNCHANGED <<storage, pc, twr, ret, writes, lim, build, tool>>

Rewards_staticcall(address) ==
    /\ pc = "run"
    /\ Len(frames) < lim.depth
    /\ Enter("Rewards", "staticcall", address)
    /\ UNCHANGED <<storage, pc, twr, ret, writes, lim, build, tool>>

Rewards_call_mut(address) ==
    /\ pc = "run"
    /\ Len(frames) < lim.depth
    /\ Enter("Rewards", "call_mut", address)
    /\ UNCHANGED <<storage, pc, twr, ret, writes, lim, build, tool>>

\* the closure returns Ok
ReturnOk ==
    /\ pc = "run"
    /\ Leave("none")
    /\ UNCHANGED <<storage, pc, twr, lim, build, tool, writes>>

\* the closure returns an Err of its own
ReturnErr ==
    /\ pc = "run"
    /\ Leave(ClosureError)
    /\ pc' = "err"
    /\ UNCHANGED <<storage, twr, lim, build, tool, writes>>

\* a nested call returned Err and the closure passes it on with `?`
PropagateErr ==
    /\ pc = "err"
    /\ Leave(ret)
    /\ UNCHANGED <<storage, pc, twr, lim, build, tool, writes>>

\* the caller of the failed call keeps the Err and goes on
Recover ==
    /\ pc = "err"
    /\ pc' = "run"
    /\ UNCHANGED <<stack, storage, frames, twr, ret, lim, build, tool, writes>>

----------------------------------------------------------------------------
(* Handler calls *)

TotalSupply ==
    /\ HasInstance("Token", FALSE)
    /\ LET r == total_supply(stack, storage) IN
        ret' = r.err
    /\ UNCHANGED <<stack, storage, frames, pc, twr, lim, build, tool, writes>>

BalanceOf(account) ==
    /\ HasInstance("Token", FALSE)
    /\ LET r == balance_of(stack, storage, account) IN
        ret' = r.err
    /\ UNCHANGED <<stack, storage, frames, pc, twr, lim, build, tool, writes>>

GetPool ==
    /\ HasInstance("Rewards", FALSE)
    /\ LET r == get_pool(stack, storage) IN
        ret' = r.err
    /\ UNCHANGED <<stack, storage, frames, pc, twr, lim, build, tool, writes>>

Mint(to, amount) ==
    /\ HasInstance("Token", TRUE)
    /\ writes < lim.writes
    /\ LET r == mint(stack, storage, to, amount) IN
        /\ storage' = r.st
        /\ ret' = r.err
        /\ writes' = IF r.err = "none" THEN writes + 1 ELSE writes
    /\ UNCHANGED <<stack, frames, pc, twr, lim, build, tool>>

Transfer(from, to, amount) ==
    /\ HasInstance("Token", TRUE)
    /\ writes < lim.writes
    /\ LET r == transfer(stack, storage, from, to, amount) IN
        /\ storage' = r.st
        /\ ret' = r.err
        /\ writes' = IF r.err = "none" THEN writes + 1 ELSE writes
    /\ UNCHANGED <<stack, frames, pc, twr, lim, build, tool>>

Distribute(amount) ==
    /\ HasInstance("Rewards", TRUE)
    /\ writes < lim.writes
    /\ LET r == distribute(stack, storage, amount) IN
        /\ storage' = r.st
        /\ ret' = r.err
        /\ writes' = IF r.err = "none" THEN writes + 1 ELSE writes
    /\ UNCHANGED <<stack, frames, pc, twr, lim, build, tool>>

----------------------------------------------------------------------------
(* transfer_with_rewards, one step per statement *)

\* the nested call made before the transfer is applied
TwrTransfer_deferred(from, to, amount) ==
    /\ HasInstance("Token", TRUE)
    /\ writes < lim.writes
    /\ Len(frames) < lim.depth
    /\ frames # <<>>
    /\ pc' = "twr_call"
    /\ twr' = [from |-> from, to |-> to, amount |-> amount,
               st0 |-> storage, depth |-> call_depth(stack)]
    /\ UNCHANGED <<stack, storage, frames, ret, lim, build, tool, writes>>

\* self.transfer(from, to, amount)?
TwrTransfer(from, to, amount) ==
    /\ HasInstance("Token", TRUE)
    /\ writes < lim.writes
    /\ Len(frames) < lim.depth
    /\ LET r == transfer(stack, storage, from, to, amount) IN
        /\ storage' = r.st
        /\ IF r.err # "none"
           THEN /\ ret' = r.err
                /\ UNCHANGED <<pc, twr>>
           ELSE /\ pc' = "twr_call"
                /\ twr' = [from |-> from, to |-> to, amount |-> amount,
                           st0 |-> storage, depth |-> call_depth(stack)]
                /\ UNCHANGED ret
    /\ UNCHANGED <<stack, frames, lim, build, tool, writes>>

\* the nested call made on the token's own address
TwrCall_own_address ==
    /\ pc = "twr_call"
    /\ Enter("Rewards", "call_mut", stack[Len(stack)])
    /\ pc' = "twr_in"
    /\ UNCHANGED <<storage, twr, ret, writes, lim, build, tool>>

\* ThreadLocalRewards::call_mut(REWARDS_ADDRESS, ...): the guard is made
TwrCall ==
    /\ pc = "twr_call"
    /\ Enter("Rewards", "call_mut", REWARDS_ADDRESS)
    /\ pc' = "twr_in"
    /\ UNCHANGED <<storage, twr, ret, writes, lim, build, tool>>

\* |rewards| rewards.distribute(amount)
TwrDistribute ==
    /\ pc = "twr_in"
    /\ LET r == distribute(stack, storage, twr.amount) IN
        /\ storage' = r.st
        /\ ret' = r.err
    /\ pc' = "twr_ret"
    /\ UNCHANGED <<stack, frames, twr, lim, build, tool, writes>>

\* the release of the nested frame undoes the write made in it
TwrExit_rollback ==
    /\ pc = "twr_ret"
    /\ Leave(ret)
    /\ pc' = "twr_done"
    /\ storage' = sstore(storage, REWARDS_ADDRESS, Rewards_pool_slot,
                         sload(twr.st0, REWARDS_ADDRESS, Rewards_pool_slot))
    /\ UNCHANGED <<twr, lim, build, tool, writes>>

\* the nested call_mut returns what the closure returned
TwrExit ==
    /\ pc = "twr_ret"
    /\ Leave(ret)
    /\ pc' = "twr_done"
    /\ UNCHANGED <<storage, twr, lim, build, tool, writes>>

\* `?` on the nested call's result, then Ok(())
TwrReturn ==
    /\ pc = "twr_done"
    /\ pc' = "run"
    /\ ret' = ret
    /\ twr' = NoTwr
    /\ writes' = writes + 1
    /\ UNCHANGED <<stack, storage, frames, lim, build, tool>>

----------------------------------------------------------------------------

Next ==
    \/ \E address \in TokenAddresses : Token_staticcall(address)
    \/ \E address \in TokenAddresses : Token_call_mut(address)
    \/ \E address \in RewardsAddresses : Rewards_staticcall(address)
    \/ \E address \in RewardsAddresses : Rewards_call_mut(address)
    \/ ReturnOk
    \/ ReturnErr
    \/ PropagateErr
    \/ Recover
    \/ TotalSupply
    \/ \E account \in Accounts : BalanceOf(account)
    \/ GetPool
    \/ \E to \in lim.mints, amount \in lim.amounts : Mint(to, amount)
    \/ \E p \in lim.pairs, amount \in lim.amounts : Transfer(p[1], p[2], amount)
    \/ \E amount \in lim.amounts : Distribute(amount)
    \/ \E p \in lim.pairs, amount \in lim.amounts : TwrTransfer(p[1], p[2], amount)
    \/ TwrCall
    \/ TwrDistribute
    \/ TwrExit
    \/ TwrReturn

Spec == Init /\ [][Next]_vars

----------------------------------------------------------------------------
(* The token alone: calls made in one frame at a time on token_address, with
   more handler calls and both amounts *)

TokenInit ==
    /\ stack = <<>>
    /\ storage = <<>>
    /\ frames = <<>>
    /\ pc = "run"
    /\ twr = NoTwr
    /\ ret = "none"
    /\ writes = 0
    /\ lim = [depth |-> 1, writes |-> TokenWrites, mints |-> Accounts,
              pairs |-> Accounts \X Accounts, amounts |-> Amounts]
    /\ build = NoBuild
    /\ tool = NoTool

TokenNext ==
    \/ Token_staticcall(token_address)
    \/ Token_call_mut(token_address)
    \/ ReturnOk
    \/ TotalSupply
    \/ \E account \in Accounts : BalanceOf(account)
    \/ \E to \in lim.mints, amount \in lim.amounts : Mint(to, amount)
    \/ \E p \in lim.pairs, amount \in lim.amounts : Transfer(p[1], p[2], amount)

TokenSpec == TokenInit /\ [][TokenNext]_vars

----------------------------------------------------------------------------
(* Properties *)

\* C1: call_depth() is the number of frames entered and not yet released:
\* 0 outside every frame, one more after each call_mut / staticcall entry and
\* one less after each release.
C1_CallDepthCountsFrames ==
    /\ call_depth(stack) = Len(frames)
    /\ frames = <<>> => call_depth(stack) = 0

C1_Witness ==
    /\ Len(frames) = 2
    /\ call_depth(stack) = 2
    /\ pc = "run"

\* C2: inside a nested call the current address is the address the call was
\* made on, and as soon as the nested call returns the current address is
\* again the address of the frame that made it, at every depth.
C2_AddressFollowsNesting ==
    [][ /\ (Len(frames') = Len(frames) + 1 =>
              /\ current_address(stack').err = "none"
              /\ current_address(stack').val = frames'[Len(frames')].address)
        /\ (Len(frames') = Len(frames) - 1 /\ Len(frames') >= 1 =>
              /\ current_address(stack').err = "none"
              /\ current_address(stack').val = frames[Len(frames) - 1].address)
        /\ (Len(frames') = Len(frames) /\ frames # <<>> =>
              current_address(stack') = current_address(stack)) ]_vars

\* the nested call of transfer_with_rewards has returned into a token frame
\* on another address
C2_Witness ==
    /\ pc = "twr_done"
    /\ Len(frames) = 1
    /\ frames[1].address = token_address
    /\ current_address(stack).val = token_address

\* C3: the frame pushed by call_mut / staticcall is popped on every exit
\* path: when a call returns, with Ok or with Err (also an Err passed on with
\* `?` from a nested call), the context stack is the stack from before the
\* call, and with no call in progress the stack is empty.
C3_FramePoppedOnEveryExit ==
    [][ /\ (Len(frames') < Len(frames) =>
              /\ Len(frames') = Len(frames) - 1
              /\ stack' = frames[Len(frames)].before)
        /\ (frames' = <<>> => stack' = <<>>) ]_vars

\* a nested call has returned Err into a frame that is still open
C3_Witness ==
    /\ pc = "err"
    /\ ret = ClosureError
    /\ Len(frames) = 1
    /\ stack = <<frames[1].address>>

\* C4: with the context stack empty, current_address() and every handler that
\* reads or writes thread-local storage return NoActiveContext and leave the
\* storage as it was.
C4_Fails(r) == r.err = NoActiveContext /\ r.st = storage

C4_NoActiveContext ==
    [][ /\ (stack = <<>> =>
              /\ current_address(stack).err = NoActiveContext
              /\ C4_Fails(total_supply(stack, storage))
              /\ C4_Fails(get_pool(stack, storage))
              /\ \A a \in Accounts : C4_Fails(balance_of(stack, storage, a))
              /\ \A a \in Accounts, v \in lim.amounts :
                    C4_Fails(mint(stack, storage, a, v))
              /\ \A a \in Accounts, b \in Accounts, v \in lim.amounts :
                    C4_Fails(transfer(stack, storage, a, b, v))
              /\ \A v \in lim.amounts : C4_Fails(distribute(stack, storage, v)))
        /\ (stack = <<>> /\ stack' = <<>> /\ pc = "run" =>
              /\ storage' = storage
              /\ ret' = NoActiveContext) ]_vars

\* a handler was called outside every frame, on a storage that holds values
C4_Witness ==
    /\ stack = <<>>
    /\ pc = "run"
    /\ ret = NoActiveContext
    /\ storage # <<>>

\* the cell a handler of the frame on `address` reads at `slot`
Cell(st, address, slot) == sload(st, address, slot)

\* the cells whose content a step changes
ChangedCells(st, st2) ==
    {c \in DOMAIN st \cup DOMAIN st2 : Cell(st, c[1], c[2]) # Cell(st2, c[1], c[2])}

\* C5 as claimed: every storage write of a handler targets a cell of the top
\* frame's address; the distribute run in the nested frame on REWARDS_ADDRESS
\* never changes the token's total_supply, and a token handler never changes
\* the rewards pool.
C5_Original ==
    [][ /\ (\A c \in ChangedCells(storage, storage') :
              stack # <<>> /\ c[1] = stack[Len(stack)])
        /\ (pc = "twr_in" =>
              Cell(storage', frames[Len(frames) - 1].address, Token_total_supply_slot)
                = Cell(storage, frames[Len(frames) - 1].address, Token_total_supply_slot))
        /\ (pc = "run" /\ frames # <<>> /\ TopFrame.contract = "Token" =>
              Cell(storage', REWARDS_ADDRESS, Rewards_pool_slot)
                = Cell(storage, REWARDS_ADDRESS, Rewards_pool_slot)) ]_vars

\* C5 (amended): every storage write of a handler targets a cell of the top
\* frame's address; when the token's frame is on an address other than
\* REWARDS_ADDRESS, the distribute run in the nested frame never changes the
\* token's total_supply and a token handler never changes the rewards pool.
C5_WritesGoToTopFrameAddress ==
    [][ /\ (\A c \in ChangedCells(storage, storage') :
              stack # <<>> /\ c[1] = stack[Len(stack)])
        /\ (pc = "twr_in" /\ frames[Len(frames) - 1].address # REWARDS_ADDRESS =>
              Cell(storage', frames[Len(frames) - 1].address, Token_total_supply_slot)
                = Cell(storage, frames[Len(frames) - 1].address, Token_total_supply_slot))
        /\ (pc = "run" /\ frames # <<>> /\ TopFrame.contract = "Token"
                /\ TopFrame.address # REWARDS_ADDRESS =>
              Cell(storage', REWARDS_ADDRESS, Rewards_pool_slot)
                = Cell(storage, REWARDS_ADDRESS, Rewards_pool_slot)) ]_vars

\* the nested distribute has written the pool while the token on
\* token_address holds a total supply of its own in its slot 0
C5_Witness ==
    /\ pc = "twr_ret"
    /\ frames[1].address = token_address
    /\ Cell(storage, token_address, Token_total_supply_slot) = 100
    /\ Cell(storage, REWARDS_ADDRESS, Rewards_pool_slot) = 1

\* the context stack of the frame that called transfer_with_rewards, and the
\* storage right after its transfer
C6_Outer == SubSeq(stack, 1, twr.depth)
C6_Transferred == transfer(C6_Outer, twr.st0, twr.from, twr.to, twr.amount).st
C6_Pool(st) == Cell(st, REWARDS_ADDRESS, Rewards_pool_slot)

C7_InnerWritesPersist ==
    [][ /\ (Len(frames') # Len(frames) => storage' = storage)
        /\ (pc' = "twr_done" =>
              get_pool(AddressGuard_new(stack', REWARDS_ADDRESS), storage').val
                = U256Add(C6_Pool(twr.st0), twr.amount \div 100))
        /\ (frames' # <<>> =>
              get_pool(stack', storage').val
                = Cell(storage', frames'[Len(frames')].address, Rewards_pool_slot)) ]_vars

\* after mint(alice, 1000) and transfer_with_rewards(alice, bob, 100), a later
\* staticcall on REWARDS_ADDRESS reads the pool that the nested distribute wrote
C7_Witness ==
    /\ pc = "run"
    /\ Len(frames) = 1
    /\ TopFrame = Frame("Rewards", "staticcall", REWARDS_ADDRESS, <<>>)
    /\ get_pool(stack, storage).val = 1
    /\ balance_of(<<token_address>>, storage, alice).val = 900
    /\ balance_of(<<token_address>>, storage, bob).val = 100

\* the words written in the round trips
C8_Values == {0, 1, 100, U256Modulus - 1}

C8_Reads(r, v) == r.err = "none" /\ r.val = v

\* C8: in a frame on any address, a value written through a handler is the
\* value read back through the same handler, in that frame and in a frame
\* opened later on the same address: total_supply, every entry of balances,
\* and the pool that distribute writes.
C8_StorageRoundTrip ==
    stack # <<>> =>
        LET later == <<stack[Len(stack)]>> IN
        /\ \A v \in C8_Values :
            LET w == set_total_supply(stack, storage, v) IN
            /\ w.err = "none"
            /\ C8_Reads(total_supply(stack, w.st), v)
            /\ C8_Reads(total_supply(later, w.st), v)
            /\ \A a \in Accounts :
                LET b == set_balance(stack, storage, a, v) IN
                /\ b.err = "none"
                /\ C8_Reads(balance_of(stack, b.st, a), v)
                /\ C8_Reads(balance_of(later, b.st, a), v)
        /\ \A x \in lim.amounts :
            C8_Reads(get_pool(stack, distribute(stack, storage, x).st),
                     U256Add(get_pool(stack, storage).val, x \div RewardDivisor))

\* a frame is open on an address whose total supply and balance of Alice were
\* written before
C8_Witness ==
    /\ stack # <<>>
    /\ pc = "run"
    /\ balance_of(stack, storage, alice).val = 100
    /\ total_supply(stack, storage).val = 100

----------------------------------------------------------------------------
(* Properties of the token alone, under TokenSpec *)

\* C9 as claimed: for distinct from and to and an amount not above
\* balance_of(from), transfer(from, to, amount) lowers balance_of(from) by
\* exactly amount and raises balance_of(to) by exactly amount.
C9_TransferMovesExactlyAmount ==
    [][ \A from \in Accounts, to \in Accounts, amount \in lim.amounts :
          ( /\ Transfer(from, to, amount)
            /\ frames # <<>>
            /\ from # to
            /\ amount <= balance_of(stack, storage, from).val ) =>
              /\ ret' = "none"
              /\ balance_of(stack, storage', from).val
                   = balance_of(stack, storage, from).val - amount
              /\ balance_of(stack, storage', to).val
                   = balance_of(stack, storage, to).val + amount ]_vars

\* C10 as claimed: a transfer of more than the sender's balance fails with
\* InsufficientBalance and changes no state.
C10_InsufficientBalanceReverts ==
    [][ \A from \in Accounts, to \in Accounts, amount \in lim.amounts :
          ( /\ Transfer(from, to, amount)
            /\ frames # <<>>
            /\ amount > balance_of(stack, storage, from).val ) =>
              /\ ret' = "InsufficientBalance"
              /\ storage' = storage ]_vars

----------------------------------------------------------------------------
(* Static calls *)

StateMutabilityViolation == "StateMutabilityViolation"

\* a call of a handler that takes &mut self
C11_MutatingCall ==
    \/ \E to \in Accounts, amount \in lim.amounts : Mint(to, amount)
    \/ \E from \in Accounts, to \in Accounts, amount \in lim.amounts :
          \/ Transfer(from, to, amount)
          \/ TwrTransfer(from, to, amount)
    \/ \E amount \in lim.amounts : Distribute(amount)
    \/ TwrDistribute

\* C11 as claimed: in an execution entered as a static call (the outermost
\* frame is a staticcall), every call of a mutating handler, also one made in
\* a nested call_mut, fails with StateMutabilityViolation and writes no cell.
C11_StaticPurity ==
    [][ ( /\ frames # <<>>
          /\ frames[1].kind = "staticcall"
          /\ C11_MutatingCall ) =>
            /\ ret' = StateMutabilityViolation
            /\ storage' = storage ]_vars

----------------------------------------------------------------------------
(* precompiles-macros: the interface catalogue.  A type is written as the
   tokens given to parse_quote!; a function keeps the name of its Call struct
   (call_type_path without the interface's path). *)

get_itip20_functions ==
    << [name |-> "name", is_view |-> TRUE, return_type |-> "String", call |-> "nameCall",
        params |-> <<>>],
       [name |-> "symbol", is_view |-> TRUE, return_type |-> "String", call |-> "symbolCall",
        params |-> <<>>],
       [name |-> "decimals", is_view |-> TRUE, return_type |-> "u8", call |-> "decimalsCall",
        params |-> <<>>],
       [name |-> "currency", is_view |-> TRUE, return_type |-> "String", call |-> "currencyCall",
        params |-> <<>>],
       [name |-> "total_supply", is_view |-> TRUE, return_type |-> "U256", call |-> "totalSupplyCall",
        params |-> <<>>],
       [name |-> "supply_cap", is_view |-> TRUE, return_type |-> "U256", call |-> "supplyCapCall",
        params |-> <<>>],
       [name |-> "transfer_policy_id", is_view |-> TRUE, return_type |-> "u64", call |-> "transferPolicyIdCall",
        params |-> <<>>],
       [name |-> "paused", is_view |-> TRUE, return_type |-> "bool", call |-> "pausedCall",
        params |-> <<>>],
       [name |-> "quote_token", is_view |-> TRUE, return_type |-> "Address", call |-> "quoteTokenCall",
        params |-> <<>>],
       [name |-> "next_quote_token", is_view |-> TRUE, return_type |-> "Address", call |-> "nextQuoteTokenCall",
        params |-> <<>>],
       [name |-> "balance_of", is_view |-> TRUE, return_type |-> "U256", call |-> "balanceOfCall",
        params |-> <<<<"account", "Address">>>>],
       [name |-> "allowance", is_view |-> TRUE, return_type |-> "U256", call |-> "allowanceCall",
        params |-> <<<<"owner", "Address">>, <<"spender", "Address">>>>],
       [name |-> "transfer", is_view |-> FALSE, return_type |-> "bool", call |-> "transferCall",
        params |-> <<<<"to", "Address">>, <<"amount", "U256">>>>],
       [name |-> "transfer_from", is_view |-> FALSE, return_type |-> "bool", call |-> "transferFromCall",
        params |-> <<<<"from", "Address">>, <<"to", "Address">>, <<"amount", "U256">>>>],
       [name |-> "approve", is_view |-> FALSE, return_type |-> "bool", call |-> "approveCall",
        params |-> <<<<"spender", "Address">>, <<"amount", "U256">>>>],
       [name |-> "transfer_from_with_memo", is_view |-> FALSE, return_type |-> "bool", call |-> "transferFromWithMemoCall",
        params |-> <<<<"from", "Address">>, <<"to", "Address">>, <<"amount", "U256">>, <<"memo", "B256">>>>],
       [name |-> "mint", is_view |-> FALSE, return_type |-> "()", call |-> "mintCall",
        params |-> <<<<"to", "Address">>, <<"amount", "U256">>>>],
       [name |-> "burn", is_view |-> FALSE, return_type |-> "()", call |-> "burnCall",
        params |-> <<<<"amount", "U256">>>>],
       [name |-> "mint_with_memo", is_view |-> FALSE, return_type |-> "()", call |-> "mintWithMemoCall",
        params |-> <<<<"to", "Address">>, <<"amount", "U256">>, <<"memo", "B256">>>>],
       [name |-> "burn_with_memo", is_view |-> FALSE, return_type |-> "()", call |-> "burnWithMemoCall",
        params |-> <<<<"amount", "U256">>, <<"memo", "B256">>>>],
       [name |-> "burn_blocked", is_view |-> FALSE, return_type |-> "()", call |-> "burnBlockedCall",
        params |-> <<<<"from", "Address">>, <<"amount", "U256">>>>],
       [name |-> "transfer_with_memo", is_view |-> FALSE, return_type |-> "()", call |-> "transferWithMemoCall",
        params |-> <<<<"to", "Address">>, <<"amount", "U256">>, <<"memo", "B256">>>>],
       [name |-> "change_transfer_policy_id", is_view |-> FALSE, return_type |-> "()", call |-> "changeTransferPolicyIdCall",
        params |-> <<<<"new_policy_id", "u64">>>>],
       [name |-> "set_supply_cap", is_view |-> FALSE, return_type |-> "()", call |-> "setSupplyCapCall",
        params |-> <<<<"new_supply_cap", "U256">>>>],
       [name |-> "pause", is_view |-> FALSE, return_type |-> "()", call |-> "pauseCall",
        params |-> <<>>],
       [name |-> "unpause", is_view |-> FALSE, return_type |-> "()", call |-> "unpauseCall",
        params |-> <<>>],
       [name |-> "update_quote_token", is_view |-> FALSE, return_type |-> "()", call |-> "updateQuoteTokenCall",
        params |-> <<<<"new_quote_token", "Address">>>>],
       [name |-> "finalize_quote_token_update", is_view |-> FALSE, return_type |-> "()", call |-> "finalizeQuoteTokenUpdateCall",
        params |-> <<>>] >>

get_itip20_events ==
    << [name |-> "transfer", event |-> "Transfer",
        params |-> <<<<"from", "Address", TRUE>>, <<"to", "Address", TRUE>>, <<"amount", "U256", FALSE>>>>],
       [name |-> "approval", event |-> "Approval",
        params |-> <<<<"owner", "Address", TRUE>>, <<"spender", "Address", TRUE>>, <<"amount", "U256", FALSE>>>>],
       [name |-> "mint", event |-> "Mint",
        params |-> <<<<"to", "Address", TRUE>>, <<"amount", "U256", FALSE>>>>],
       [name |-> "burn", event |-> "Burn",
        params |-> <<<<"from", "Address", TRUE>>, <<"amount", "U256", FALSE>>>>],
       [name |-> "burn_blocked", event |-> "BurnBlocked",
        params |-> <<<<"from", "Address", TRUE>>, <<"amount", "U256", FALSE>>>>],
       [name |-> "transfer_with_memo", event |-> "TransferWithMemo",
        params |-> <<<<"from", "Address", TRUE>>, <<"to", "Address", TRUE>>, <<"amount", "U256", FALSE>>, <<"memo", "B256", FALSE>>>>],
       [name |-> "transfer_policy_update", event |-> "TransferPolicyUpdate",
        params |-> <<<<"updater", "Address", TRUE>>, <<"new_policy_id", "u64", TRUE>>>>],
       [name |-> "supply_cap_update", event |-> "SupplyCapUpdate",
        params |-> <<<<"updater", "Address", TRUE>>, <<"new_supply_cap", "U256", TRUE>>>>],
       [name |-> "pause_state_update", event |-> "PauseStateUpdate",
        params |-> <<<<"updater", "Address", TRUE>>, <<"is_paused", "bool", FALSE>>>>],
       [name |-> "update_quote_token", event |-> "UpdateQuoteToken",
        params |-> <<<<"updater", "Address", TRUE>>, <<"new_quote_token", "Address", TRUE>>>>],
       [name |-> "quote_token_update_finalized", event |-> "QuoteTokenUpdateFinalized",
        params |-> <<<<"updater", "Address", TRUE>>, <<"new_quote_token", "Address", TRUE>>>>] >>

get_itip20_errors ==
    << [name |-> "insufficient_balance", error |-> "InsufficientBalance",
        params |-> <<<<"account", "Address">>, <<"balance", "U256">>, <<"needed", "U256">>>>],
       [name |-> "insufficient_allowance", error |-> "InsufficientAllowance",
        params |-> <<<<"owner", "Address">>, <<"spender", "Address">>, <<"allowance", "U256">>, <<"needed", "U256">>>>],
       [name |-> "supply_cap_exceeded", error |-> "SupplyCapExceeded",
        params |-> <<<<"supply_cap", "U256">>, <<"total_supply", "U256">>, <<"amount", "U256">>>>],
       [name |-> "invalid_supply_cap", error |-> "InvalidSupplyCap",
        params |-> <<<<"supply_cap", "U256">>>>],
       [name |-> "unauthorized", error |-> "Unauthorized",
        params |-> <<<<"account", "Address">>>>],
       [name |-> "paused", error |-> "Paused",
        params |-> <<>>],
       [name |-> "not_paused", error |-> "NotPaused",
        params |-> <<>>],
       [name |-> "invalid_transfer_policy", error |-> "InvalidTransferPolicy",
        params |-> <<<<"policy_id", "u64">>>>],
       [name |-> "transfer_policy_violation", error |-> "TransferPolicyViolation",
        params |-> <<<<"from", "Address">>, <<"to", "Address">>, <<"policy_id", "u64">>>>],
       [name |-> "invalid_address", error |-> "InvalidAddress",
        params |-> <<<<"address", "Address">>>>],
       [name |-> "invalid_amount", error |-> "InvalidAmount",
        params |-> <<<<"amount", "U256">>>>],
       [name |-> "no_pending_quote_token_update", error |-> "NoPendingQuoteTokenUpdate",
        params |-> <<>>],
       [name |-> "quote_token_update_not_ready", error |-> "QuoteTokenUpdateNotReady",
        params |-> <<<<"current_time", "U256">>, <<"ready_time", "U256">>>>] >>

get_itest_token_functions ==
    << [name |-> "name", is_view |-> TRUE, return_type |-> "String", call |-> "nameCall",
        params |-> <<>>],
       [name |-> "symbol", is_view |-> TRUE, return_type |-> "String", call |-> "symbolCall",
        params |-> <<>>],
       [name |-> "decimals", is_view |-> TRUE, return_type |-> "u8", call |-> "decimalsCall",
        params |-> <<>>],
       [name |-> "balance_of", is_view |-> TRUE, return_type |-> "U256", call |-> "balanceOfCall",
        params |-> <<<<"account", "Address">>>>],
       [name |-> "allowance", is_view |-> TRUE, return_type |-> "U256", call |-> "allowanceCall",
        params |-> <<<<"owner", "Address">>, <<"spender", "Address">>>>],
       [name |-> "transfer", is_view |-> FALSE, return_type |-> "bool", call |-> "transferCall",
        params |-> <<<<"to", "Address">>, <<"amount", "U256">>>>],
       [name |-> "approve", is_view |-> FALSE, return_type |-> "bool", call |-> "approveCall",
        params |-> <<<<"spender", "Address">>, <<"amount", "U256">>>>],
       [name |-> "mint", is_view |-> FALSE, return_type |-> "()", call |-> "mintCall",
        params |-> <<<<"to", "Address">>, <<"amount", "U256">>>>],
       [name |-> "burn", is_view |-> FALSE, return_type |-> "()", call |-> "burnCall",
        params |-> <<<<"amount", "U256">>>>] >>

get_imetadata_functions ==
    << [name |-> "version", is_view |-> TRUE, return_type |-> "U256", call |-> "versionCall",
        params |-> <<>>],
       [name |-> "owner", is_view |-> TRUE, return_type |-> "Address", call |-> "ownerCall",
        params |-> <<>>] >>

\* IMiniToken's mint given the Call struct of another function
get_imini_token_functions_other_call ==
    << [name |-> "mint", is_view |-> FALSE, return_type |-> "()", call |-> "burnCall",
        params |-> <<<<"to", "Address">>, <<"amount", "U256">>>>] >>

get_imini_token_functions ==
    << [name |-> "mint", is_view |-> FALSE, return_type |-> "()", call |-> "mintCall",
        params |-> <<<<"to", "Address">>, <<"amount", "U256">>>>] >>

get_imini_token_events ==
    << [name |-> "transfer", event |-> "Transfer",
        params |-> <<<<"from", "Address", TRUE>>, <<"to", "Address", TRUE>>, <<"amount", "U256", FALSE>>>>],
       [name |-> "mint", event |-> "Mint",
        params |-> <<<<"to", "Address", TRUE>>, <<"amount", "U256", FALSE>>>>] >>

get_ierror_test_functions ==
    << [name |-> "dummy", is_view |-> FALSE, return_type |-> "()", call |-> "dummyCall",
        params |-> <<>>] >>

get_ierror_test_errors ==
    << [name |-> "simple_error", error |-> "SimpleError",
        params |-> <<>>],
       [name |-> "parameterized_error", error |-> "ParameterizedError",
        params |-> <<<<"code", "U256">>, <<"addr", "Address">>>>] >>

fee_manager_get_functions ==
    << [name |-> "basis_points", is_view |-> TRUE, return_type |-> "U256", call |-> "BASIS_POINTSCall",
        params |-> <<>>],
       [name |-> "fee_bps", is_view |-> TRUE, return_type |-> "U256", call |-> "FEE_BPSCall",
        params |-> <<>>],
       [name |-> "user_tokens", is_view |-> TRUE, return_type |-> "Address", call |-> "userTokensCall",
        params |-> <<<<"user", "Address">>>>],
       [name |-> "validator_tokens", is_view |-> TRUE, return_type |-> "Address", call |-> "validatorTokensCall",
        params |-> <<<<"validator", "Address">>>>],
       [name |-> "get_fee_token_balance", is_view |-> TRUE, return_type |-> "(Address, U256)", call |-> "getFeeTokenBalanceCall",
        params |-> <<<<"sender", "Address">>, <<"validator", "Address">>>>],
       [name |-> "set_user_token", is_view |-> FALSE, return_type |-> "()", call |-> "setUserTokenCall",
        params |-> <<<<"token", "Address">>>>],
       [name |-> "set_validator_token", is_view |-> FALSE, return_type |-> "()", call |-> "setValidatorTokenCall",
        params |-> <<<<"token", "Address">>>>],
       [name |-> "execute_block", is_view |-> FALSE, return_type |-> "()", call |-> "executeBlockCall",
        params |-> <<>>] >>

fee_manager_get_events ==
    << [name |-> "user_token_set", event |-> "UserTokenSet",
        params |-> <<<<"user", "Address", TRUE>>, <<"token", "Address", TRUE>>>>],
       [name |-> "validator_token_set", event |-> "ValidatorTokenSet",
        params |-> <<<<"validator", "Address", TRUE>>, <<"token", "Address", TRUE>>>>] >>

fee_manager_get_errors ==
    << [name |-> "only_validator", error |-> "OnlyValidator",
        params |-> <<>>],
       [name |-> "only_system_contract", error |-> "OnlySystemContract",
        params |-> <<>>],
       [name |-> "invalid_token", error |-> "InvalidToken",
        params |-> <<>>],
       [name |-> "pool_does_not_exist", error |-> "PoolDoesNotExist",
        params |-> <<>>],
       [name |-> "insufficient_liquidity", error |-> "InsufficientLiquidity",
        params |-> <<>>],
       [name |-> "insufficient_fee_token_balance", error |-> "InsufficientFeeTokenBalance",
        params |-> <<>>],
       [name |-> "internal_error", error |-> "InternalError",
        params |-> <<>>],
       [name |-> "cannot_change_within_block", error |-> "CannotChangeWithinBlock",
        params |-> <<>>],
       [name |-> "token_policy_forbids", error |-> "TokenPolicyForbids",
        params |-> <<>>] >>

tip20_factory_get_functions ==
    << [name |-> "create_token", is_view |-> FALSE, return_type |-> "U256", call |-> "createTokenCall",
        params |-> <<<<"name", "String">>, <<"symbol", "String">>, <<"currency", "String">>, <<"quote_token", "Address">>, <<"admin", "Address">>>>],
       [name |-> "token_id_counter", is_view |-> TRUE, return_type |-> "U256", call |-> "tokenIdCounterCall",
        params |-> <<>>] >>

tip20_factory_get_events ==
    << [name |-> "token_created", event |-> "TokenCreated",
        params |-> <<<<"token", "Address", TRUE>>, <<"token_id", "U256", TRUE>>, <<"name", "String", FALSE>>, <<"symbol", "String", FALSE>>, <<"currency", "String", FALSE>>, <<"admin", "Address", FALSE>>>>] >>

tip20_factory_get_errors == <<>>

tip20_rewards_registry_get_functions ==
    << [name |-> "finalize_streams", is_view |-> FALSE, return_type |-> "()", call |-> "finalizeStreamsCall",
        params |-> <<>>] >>

tip20_rewards_registry_get_events == <<>>

tip20_rewards_registry_get_errors ==
    << [name |-> "unauthorized", error |-> "Unauthorized",
        params |-> <<>>],
       [name |-> "streams_already_finalized", error |-> "StreamsAlreadyFinalized",
        params |-> <<>>] >>

tip4217_registry_get_functions ==
    << [name |-> "get_currency_decimals", is_view |-> TRUE, return_type |-> "u8", call |-> "getCurrencyDecimalsCall",
        params |-> <<<<"currency", "String">>>>] >>

tip4217_registry_get_events == <<>>

tip4217_registry_get_errors == <<>>

----------------------------------------------------------------------------
(* precompiles-macros: interface/mod.rs *)

\* utils::is_unit: the type is the empty tuple
is_unit(ty) == ty = "()"

\* kind() asking for the unit return type before it asks for is_view
InterfaceFunction_kind_unit_first(f) ==
    IF is_unit(f.return_type) THEN "MutateVoid"
    ELSE IF ~f.is_view THEN "Mutate"
    ELSE IF f.params = <<>> THEN "Metadata"
    ELSE "View"

\* InterfaceFunction::kind: the match on is_view, arm by arm
InterfaceFunction_kind(f) ==
    IF f.is_view /\ f.params = <<>> THEN "Metadata"
    ELSE IF f.is_view THEN "View"
    ELSE IF is_unit(f.return_type) THEN "MutateVoid"
    ELSE "Mutate"

FunctionKind == {"Metadata", "View", "Mutate", "MutateVoid"}

Interface(functions, events, errors) ==
    [functions |-> functions, events |-> events, errors |-> errors]

\* a syn::Result: Ok(val), with the warning printed on the way, or Err
SynOk(val, warning) == [ok |-> TRUE, warning |-> warning, val |-> val]
SynErr == [ok |-> FALSE, warning |-> FALSE, val |-> Interface(<<>>, <<>>, <<>>)]

\* a type is the sequence of the segments of its path; a type that is not a
\* path is the empty sequence.  utils::try_extract_type_ident: the last segment
try_extract_type_ident(ty) ==
    IF ty = <<>> THEN [ok |-> FALSE, val |-> ""] ELSE [ok |-> TRUE, val |-> ty[Len(ty)]]

\* the lookup failing on a name it does not know
get_interface_metadata_unknown_is_error(interface_ident, interface_type) ==
    CASE interface_ident = "ITIP20" ->
            SynOk(Interface(get_itip20_functions, get_itip20_events, get_itip20_errors), FALSE)
      [] interface_ident = "ITestToken" ->
            SynOk(Interface(get_itest_token_functions, <<>>, <<>>), FALSE)
      [] interface_ident = "IMetadata" ->
            SynOk(Interface(get_imetadata_functions, <<>>, <<>>), FALSE)
      [] interface_ident = "IMiniToken" ->
            SynOk(Interface(get_imini_token_functions, get_imini_token_events, <<>>), FALSE)
      [] interface_ident = "IErrorTest" ->
            SynOk(Interface(get_ierror_test_functions, <<>>, get_ierror_test_errors), FALSE)
      [] OTHER -> SynErr

get_interface_metadata(interface_ident, interface_type) ==
    CASE interface_ident = "ITIP20" ->
            SynOk(Interface(get_itip20_functions, get_itip20_events, get_itip20_errors), FALSE)
      [] interface_ident = "ITestToken" ->
            SynOk(Interface(get_itest_token_functions, <<>>, <<>>), FALSE)
      [] interface_ident = "IMetadata" ->
            SynOk(Interface(get_imetadata_functions, <<>>, <<>>), FALSE)
      [] interface_ident = "IMiniToken" ->
            SynOk(Interface(get_imini_token_functions, get_imini_token_events, <<>>), FALSE)
      [] interface_ident = "IErrorTest" ->
            SynOk(Interface(get_ierror_test_functions, <<>>, get_ierror_test_errors), FALSE)
      [] OTHER ->
            \* eprintln!("Warning: Interface '..' not in registry. ..")
            SynOk(Interface(<<>>, <<>>, <<>>), TRUE)

\* parse_interface looking the interface up by the first segment of its path
parse_interface_first_segment(interface_type) ==
    IF interface_type = <<>> THEN SynErr
    ELSE get_interface_metadata(interface_type[1], interface_type)

parse_interface(interface_type) ==
    LET interface_ident == try_extract_type_ident(interface_type) IN
    IF ~interface_ident.ok THEN SynErr
    ELSE get_interface_metadata(interface_ident.val, interface_type)

----------------------------------------------------------------------------
(* InterfaceFunction::kind over the functions an interface can declare *)

\* most parameters of a declared function
MaxParams == 2

ParamTypes == {"Address", "U256"}
ReturnTypes == {"()", "bool", "U256", "String"}

ParamLists ==
    UNION { [1..n -> {<<"arg", ty>> : ty \in ParamTypes}] : n \in 0..MaxParams }

\* the functions of tests::test_fn_kind, over every parameter list and return type
DeclaredFunctions ==
    { [name |-> "f", is_view |-> v, return_type |-> r, call |-> "fCall", params |-> ps] :
        v \in BOOLEAN, r \in ReturnTypes, ps \in ParamLists }

\* while the macros run, no contract does
NoRun ==
    /\ stack = <<>>
    /\ storage = <<>>
    /\ frames = <<>>
    /\ pc = "run"
    /\ twr = NoTwr
    /\ ret = "none"
    /\ writes = 0
    /\ lim = [depth |-> 0, writes |-> 0, mints |-> {}, pairs |-> {}, amounts |-> {}]
    /\ tool = NoTool

run_vars == <<stack, storage, frames, pc, twr, ret, writes, lim, tool>>

KindInit ==
    /\ NoRun
    /\ \E f \in DeclaredFunctions : build = [stage |-> "fn", fn |-> f]

\* func.kind()
Kind ==
    /\ build.stage = "fn"
    /\ build' = [stage |-> "kind", fn |-> build.fn, kind |-> InterfaceFunction_kind(build.fn)]
    /\ UNCHANGED run_vars

KindNext == Kind

KindSpec == KindInit /\ [][KindNext]_vars

\* C12: kind() puts every function in exactly one of the four kinds: Metadata
\* iff view without parameters, View iff view with parameters, MutateVoid iff
\* not view and unit return, Mutate iff not view and another return; the
\* return type never changes a view's kind, the parameters never a non-view's.
C12_KindIsTotalClassification ==
    build.stage = "kind" =>
        LET f == build.fn
            k == build.kind
        IN  /\ k \in FunctionKind
            /\ (k = "Metadata") <=> (f.is_view /\ Len(f.params) = 0)
            /\ (k = "View") <=> (f.is_view /\ Len(f.params) > 0)
            /\ (k = "MutateVoid") <=> (~f.is_view /\ f.return_type = "()")
            /\ (k = "Mutate") <=> (~f.is_view /\ f.return_type # "()")
            /\ \A g \in DeclaredFunctions :
                /\ (f.is_view /\ g.is_view /\ g.params = f.params)
                      => InterfaceFunction_kind(g) = k
                /\ (~f.is_view /\ ~g.is_view /\ g.return_type = f.return_type)
                      => InterfaceFunction_kind(g) = k

\* a view function with a parameter and the unit return type was classified
C12_Witness ==
    /\ build.stage = "kind"
    /\ build.fn.is_view
    /\ Len(build.fn.params) = 1
    /\ build.fn.return_type = "()"
    /\ build.kind = "View"

----------------------------------------------------------------------------
(* #[contract(I1, I2, ..)]: the interfaces are parsed in the order of the
   attribute and the dispatcher is generated from their functions *)

\* most interfaces in one attribute
MaxInterfaces == 2

BaselineNames ==
    {"ITIP20", "ITIP20Factory", "ITIP20RewardsRegistry", "ITIP4217Registry", "IFeeManager"}
TestNames == {"ITestToken", "IMetadata", "IMiniToken", "IErrorTest"}

\* the types an attribute names: an identifier, a qualified path, a name no
\* catalogue has, and a type that is not a path
InterfaceTypes ==
    { <<n>> : n \in BaselineNames \cup TestNames }
        \cup { <<"crate", "ITIP20">>, <<"UnknownInterface">>, <<>> }

\* the selector of a function: the hash of its canonical signature, kept as its
\* preimage (the Call struct's name and the parameter types)
selector(f) == <<f.call, [i \in 1..Len(f.params) |-> f.params[i][2]]>>

RECURSIVE all_functions(_)
all_functions(parsed) ==
    IF parsed = <<>> THEN <<>>
    ELSE all_functions(SubSeq(parsed, 1, Len(parsed) - 1)) \o parsed[Len(parsed)].val.functions

has_duplicate_selector(functions) ==
    \E i \in 1..Len(functions), j \in 1..Len(functions) :
        i < j /\ selector(functions[i]) = selector(functions[j])

\* one arm per function: its selector routes to its handler and its kind
gen_dispatcher(functions) ==
    IF has_duplicate_selector(functions)
    THEN [ok |-> FALSE, routes |-> <<>>]
    ELSE [ok |-> TRUE,
          routes |-> [sel \in {selector(functions[i]) : i \in 1..Len(functions)} |->
                        LET f == CHOOSE g \in {functions[i] : i \in 1..Len(functions)} :
                                    selector(g) = sel
                        IN  [name |-> f.name, kind |-> InterfaceFunction_kind(f)]]]

MacroInit ==
    /\ NoRun
    /\ build = [stage |-> "attr", attrs |-> <<>>, parsed |-> <<>>, routes |-> <<>>]

\* the attribute names one more interface
ContractAttr(ty) ==
    /\ build.stage = "attr"
    /\ Len(build.attrs) < MaxInterfaces
    /\ build' = [build EXCEPT !.attrs = Append(@, ty)]
    /\ UNCHANGED run_vars

\* parse_interface(&interface_type)? on the next interface of the attribute
ParseInterface ==
    /\ build.stage \in {"attr", "parse"}
    /\ Len(build.parsed) < Len(build.attrs)
    /\ LET r == parse_interface(build.attrs[Len(build.parsed) + 1]) IN
        build' = [build EXCEPT !.stage = IF r.ok THEN "parse" ELSE "error",
                               !.parsed = Append(@, r)]
    /\ UNCHANGED run_vars

\* every interface is parsed: the dispatcher is generated, or the contract rejected
GenDispatcher ==
    /\ build.stage \in {"attr", "parse"}
    /\ Len(build.parsed) = Len(build.attrs)
    /\ LET d == gen_dispatcher(all_functions(build.parsed)) IN
        build' = [build EXCEPT !.stage = IF d.ok THEN "generated" ELSE "rejected",
                               !.routes = d.routes]
    /\ UNCHANGED run_vars

MacroNext ==
    \/ \E ty \in InterfaceTypes : ContractAttr(ty)
    \/ ParseInterface
    \/ GenDispatcher

MacroSpec == MacroInit /\ [][MacroNext]_vars

----------------------------------------------------------------------------
(* Properties of the catalogue, under MacroSpec *)

\* the interfaces of the attribute whose name no catalogue has
C13_Unknown(i) ==
    /\ build.attrs[i] # <<>>
    /\ try_extract_type_ident(build.attrs[i]).val \notin BaselineNames \cup TestNames

\* C13: parse_interface on a name that is not in the catalogue does not fail:
\* it returns Ok with no function, event or error and prints a warning, and
\* the dispatcher generated routes no selector for that interface.
C13_UnknownInterfaceIsEmpty ==
    /\ \A i \in 1..Len(build.parsed) :
          C13_Unknown(i) =>
            /\ build.parsed[i].ok
            /\ build.parsed[i].warning
            /\ build.parsed[i].val = Interface(<<>>, <<>>, <<>>)
    /\ build.stage = "generated" =>
          DOMAIN build.routes =
            UNION { {selector(build.parsed[i].val.functions[k]) :
                        k \in 1..Len(build.parsed[i].val.functions)} :
                    i \in {j \in 1..Len(build.parsed) : ~C13_Unknown(j)} }

\* the dispatcher was generated for #[contract(ITestToken, UnknownInterface)]:
\* it routes the nine selectors of ITestToken and no other
C13_Witness ==
    /\ build.stage = "generated"
    /\ build.attrs = << <<"ITestToken">>, <<"UnknownInterface">> >>
    /\ build.parsed[2].ok
    /\ build.parsed[2].val.functions = <<>>
    /\ Cardinality(DOMAIN build.routes) = 9

\* the function list each interface's own registry function returns
C14_OwnFunctions(name) ==
    CASE name = "ITIP20" -> get_itip20_functions
      [] name = "ITIP20Factory" -> tip20_factory_get_functions
      [] name = "ITIP20RewardsRegistry" -> tip20_rewards_registry_get_functions
      [] name = "ITIP4217Registry" -> tip4217_registry_get_functions
      [] name = "IFeeManager" -> fee_manager_get_functions
      [] name = "ITestToken" -> get_itest_token_functions
      [] name = "IMetadata" -> get_imetadata_functions
      [] name = "IMiniToken" -> get_imini_token_functions
      [] name = "IErrorTest" -> get_ierror_test_functions

\* C14 as claimed: the lookup knows every baseline name and every test name:
\* for each it returns that interface's own function list, which is not empty.
C14_CatalogueKnowsEveryName ==
    \A i \in 1..Len(build.parsed) :
        LET ident == try_extract_type_ident(build.attrs[i]) IN
        (ident.ok /\ ident.val \in BaselineNames \cup TestNames) =>
            /\ build.parsed[i].ok
            /\ build.parsed[i].val.functions # <<>>
            /\ build.parsed[i].val.functions = C14_OwnFunctions(ident.val)

\* the identifiers of the interfaces the attribute names
C16_Idents == { build.attrs[i][Len(build.attrs[i])] : i \in 1..Len(build.attrs) }

\* C16: a contract whose interfaces together hold two functions with the same
\* selector is rejected at build time, and so is a contract annotated with both
\* ITestToken and IMiniToken, which each declare mint(to: Address, amount: U256).
C16_DuplicateSelectorRejected ==
    build.stage \in {"generated", "rejected"} =>
        /\ has_duplicate_selector(all_functions(build.parsed)) => build.stage = "rejected"
        /\ {"ITestToken", "IMiniToken"} \subseteq C16_Idents => build.stage = "rejected"
        /\ build.stage = "rejected" => build.routes = <<>>

\* #[contract(ITestToken, IMiniToken)] was expanded to the end and rejected
C16_Witness ==
    /\ build.stage = "rejected"
    /\ build.attrs = << <<"ITestToken">>, <<"IMiniToken">> >>
    /\ Len(build.parsed) = 2
    /\ \E f \in {get_itest_token_functions[i] : i \in 1..Len(get_itest_token_functions)} :
          selector(f) = selector(build.parsed[2].val.functions[1])

----------------------------------------------------------------------------
(* The dispatcher of a contract and the host's entry point, for ThreadLocalToken:
   the frame is the one call_mut / staticcall opens (is_static for staticcall);
   in it the calldata is routed to a handler *)

InvalidSelector == "InvalidSelector"
UnknownSelector == "UnknownSelector"
AbiDecodeError == "AbiDecodeError"

\* HostSpec: deepest nesting of frames (the nested call of
\* transfer_with_rewards is the second) and number of mutating calls
HostDepth == 2
HostWrites == 2

\* the public handlers of ThreadLocalToken: the ones taking &self are views
Token_functions ==
    << [name |-> "total_supply", is_view |-> TRUE, return_type |-> "U256",
        call |-> "totalSupplyCall", params |-> <<>>],
       [name |-> "balance_of", is_view |-> TRUE, return_type |-> "U256",
        call |-> "balanceOfCall", params |-> <<<<"account", "Address">>>>],
       [name |-> "mint", is_view |-> FALSE, return_type |-> "()",
        call |-> "mintCall", params |-> <<<<"to", "Address">>, <<"amount", "U256">>>>],
       [name |-> "transfer", is_view |-> FALSE, return_type |-> "()",
        call |-> "transferCall",
        params |-> <<<<"from", "Address">>, <<"to", "Address">>, <<"amount", "U256">>>>],
       [name |-> "transfer_with_rewards", is_view |-> FALSE, return_type |-> "()",
        call |-> "transferWithRewardsCall",
        params |-> <<<<"from", "Address">>, <<"to", "Address">>, <<"amount", "U256">>>>] >>

\* calldata: len is input_bytes.len(); with at least 4 bytes, selector is
\* input_bytes[0..4] and args the words ABI-decoded from input_bytes[4..]
Calldata(len, sel, args) == [len |-> len, selector |-> sel, args |-> args]

Call(f, args) == Calldata(4 + 32 * Len(args), selector(f), args)

\* 0xdeadbeef
DeadBeef == <<222, 173, 190, 239>>

\* the calldata the host passes: too short, with a selector no function has,
\* with arguments missing, and the well-formed calls of the five handlers
HostInputs ==
    { Calldata(0, <<>>, <<>>), Calldata(3, <<>>, <<>>), Calldata(4, DeadBeef, <<>>),
      Call(Token_functions[3], <<>>), Call(Token_functions[1], <<>>) }
      \cup { Call(Token_functions[2], <<account>>) : account \in Accounts }
      \cup { Call(Token_functions[3], <<to, amount>>) : to \in lim.mints, amount \in lim.amounts }
      \cup { Call(Token_functions[k], <<p[1], p[2], amount>>) :
                k \in {4, 5}, p \in lim.pairs, amount \in lim.amounts }

Routed(functions, input) ==
    { i \in 1..Len(functions) : selector(functions[i]) = input.selector }

\* steps 1 to 4 of dispatch: the revert it makes before any handler runs
dispatch_revert(functions, input, is_static) ==
    IF input.len < 4 THEN InvalidSelector
    ELSE IF Routed(functions, input) = {} THEN UnknownSelector
    ELSE LET f == functions[CHOOSE i \in Routed(functions, input) : TRUE] IN
         IF ~f.is_view /\ is_static THEN StateMutabilityViolation
         ELSE IF Len(input.args) # Len(f.params) THEN AbiDecodeError
         ELSE "none"

\* dispatch(input_bytes, is_static) in the frame of the call: a revert releases
\* the frame; otherwise the handler of the selector runs
Dispatch(input) ==
    /\ pc = "run"
    /\ frames # <<>>
    /\ TopFrame.contract = "Token"
    /\ LET e == dispatch_revert(Token_functions, input, TopFrame.kind = "staticcall") IN
        IF e # "none"
        THEN /\ Leave(e)
             /\ pc' = "err"
             /\ UNCHANGED <<storage, twr, lim, build, tool, writes>>
        ELSE LET name == Token_functions[CHOOSE i \in Routed(Token_functions, input) : TRUE].name
                 a == input.args
             IN  CASE name = "total_supply" -> TotalSupply
                   [] name = "balance_of" -> BalanceOf(a[1])
                   [] name = "mint" -> Mint(a[1], a[2])
                   [] name = "transfer" -> Transfer(a[1], a[2], a[3])
                   [] name = "transfer_with_rewards" -> TwrTransfer(a[1], a[2], a[3])

HostInit ==
    /\ stack = <<>>
    /\ storage = <<>>
    /\ frames = <<>>
    /\ pc = "run"
    /\ twr = NoTwr
    /\ ret = "none"
    /\ writes = 0
    /\ lim = [depth |-> HostDepth, writes |-> HostWrites, mints |-> CtxMints,
              pairs |-> CtxPairs, amounts |-> Amounts]
    /\ build = NoBuild
    /\ tool = NoTool

HostNext ==
    \/ Token_staticcall(token_address)
    \/ Token_call_mut(token_address)
    \/ \E input \in HostInputs : Dispatch(input)
    \/ ReturnOk
    \/ Recover
    \/ TwrCall
    \/ TwrDistribute
    \/ TwrExit
    \/ TwrReturn

HostSpec == HostInit /\ [][HostNext]_vars

\* calldata shorter than 4 bytes, or whose selector routes to no function
C15_BadSelector(input) ==
    input.len < 4 \/ Routed(Token_functions, input) = {}

\* C15: a call whose calldata has fewer than 4 bytes reverts with
\* InvalidSelector, one whose selector is not in the contract's catalogue with
\* UnknownSelector; no handler runs, no cell is written and the frame of the
\* call is released, so the call depth seen after a top-level call is 0.
C15_UnknownSelectorReverts ==
    [][ \A input \in HostInputs :
          (C15_BadSelector(input) /\ Dispatch(input)) =>
            /\ ret' = IF input.len < 4 THEN InvalidSelector ELSE UnknownSelector
            /\ pc' = "err"
            /\ storage' = storage
            /\ writes' = writes
            /\ twr' = twr
            /\ frames' = SubSeq(frames, 1, Len(frames) - 1)
            /\ call_depth(stack') = call_depth(stack) - 1
            /\ Len(frames) = 1 => call_depth(stack') = 0 ]_vars

\* after a mint, a top-level call with the selector 0xdeadbeef was reverted
\* and its frame released
C15_Witness ==
    /\ pc = "err"
    /\ ret = UnknownSelector
    /\ frames = <<>>
    /\ call_depth(stack) = 0
    /\ writes = 1
    /\ balance_of(<<token_address>>, storage, alice).val = 1000

----------------------------------------------------------------------------
(* precompiles-macros: the layout planner (packing) and layout.rs *)

\* most fields of a contract struct
MaxFields == 4

SlotBytes == 32

\* the names of the fields, in declaration order
FieldNames == <<"a", "b", "c", "d", "e", "f">>

Auto == [manual |-> FALSE, slot |-> 0]
Manual(n) == [manual |-> TRUE, slot |-> n]

\* FieldKind::Slot(ty), FieldKind::Mapping, FieldKind::NestedMapping
FieldDecl(kind, ty, assigned) == [kind |-> kind, ty |-> ty, assigned |-> assigned]

\* byte width of a scalar type; the unit type has none
size_of(ty) ==
    CASE ty = "u8" -> 1
      [] ty = "u64" -> 8
      [] ty = "Address" -> 20
      [] ty = "U256" -> 32
      [] OTHER -> 0

IsScalar(f) == f.kind = "Slot"

\* the declarations a struct is made of
FieldDecls ==
    { FieldDecl("Slot", ty, Auto) : ty \in {"u8", "u64", "Address", "U256", "()"} }
        \cup { FieldDecl("Mapping", "U256", Auto), FieldDecl("NestedMapping", "U256", Auto),
               FieldDecl("Slot", "u64", Manual(1)), FieldDecl("Slot", "u8", Manual(0)) }

manual_slots(fields) ==
    { fields[i].assigned.slot : i \in {j \in 1..Len(fields) : fields[j].assigned.manual} }

\* the first slot from `slot` on that no manual field has
RECURSIVE next_free(_, _)
next_free(slot, taken) == IF slot \in taken THEN next_free(slot + 1, taken) ELSE slot

LayoutField(name, f, slot, offset) ==
    [name |-> name, kind |-> f.kind, ty |-> f.ty,
     size |-> IF IsScalar(f) THEN size_of(f.ty) ELSE SlotBytes,
     assigned |-> f.assigned, slot |-> slot, offset |-> offset]

\* step 3 giving a mapping the slot of the cursor, partly filled or not
RECURSIVE allocate_mapping_on_current_slot(_, _)
allocate_mapping_on_current_slot(fields, n) ==
    IF n = 0 THEN [slot |-> 0, offset |-> 0, out |-> <<>>]
    ELSE
    LET c == allocate_mapping_on_current_slot(fields, n - 1)
        f == fields[n]
        name == FieldNames[n]
        taken == manual_slots(fields)
    IN  IF f.assigned.manual
        THEN [c EXCEPT !.out = Append(@, LayoutField(name, f, f.assigned.slot, 0))]
        ELSE IF ~IsScalar(f)
        THEN LET base == next_free(c.slot, taken)
             IN  [slot |-> base + 1, offset |-> 0,
                  out |-> Append(c.out, LayoutField(name, f, base, 0))]
        ELSE LET cur == IF c.slot \in taken
                        THEN [slot |-> next_free(c.slot, taken), offset |-> 0]
                        ELSE [slot |-> c.slot, offset |-> c.offset]
                 s == size_of(f.ty)
             IN  IF cur.offset + s <= SlotBytes
                 THEN [slot |-> cur.slot, offset |-> cur.offset + s,
                       out |-> Append(c.out, LayoutField(name, f, cur.slot, cur.offset))]
                 ELSE LET nxt == next_free(cur.slot + 1, taken)
                      IN  [slot |-> nxt, offset |-> s,
                           out |-> Append(c.out, LayoutField(name, f, nxt, 0))]

\* steps 2 to 5 of the planner: the cursor after the first n fields and the
\* fields allocated so far.  A manual field takes its slot at offset 0; an
\* automatic one skips the slots of the manual fields; a mapping takes the
\* next whole slot.
RECURSIVE allocate(_, _)
allocate(fields, n) ==
    IF n = 0 THEN [slot |-> 0, offset |-> 0, out |-> <<>>]
    ELSE
    LET c == allocate(fields, n - 1)
        f == fields[n]
        name == FieldNames[n]
        taken == manual_slots(fields)
    IN  IF f.assigned.manual
        THEN [c EXCEPT !.out = Append(@, LayoutField(name, f, f.assigned.slot, 0))]
        ELSE IF ~IsScalar(f)
        THEN LET base == next_free(IF c.offset = 0 THEN c.slot ELSE c.slot + 1, taken)
             IN  [slot |-> base + 1, offset |-> 0,
                  out |-> Append(c.out, LayoutField(name, f, base, 0))]
        ELSE LET cur == IF c.slot \in taken
                        THEN [slot |-> next_free(c.slot, taken), offset |-> 0]
                        ELSE [slot |-> c.slot, offset |-> c.offset]
                 s == size_of(f.ty)
             IN  IF cur.offset + s <= SlotBytes
                 THEN [slot |-> cur.slot, offset |-> cur.offset + s,
                       out |-> Append(c.out, LayoutField(name, f, cur.slot, cur.offset))]
                 ELSE LET nxt == next_free(cur.slot + 1, taken)
                      IN  [slot |-> nxt, offset |-> s,
                           out |-> Append(c.out, LayoutField(name, f, nxt, 0))]

\* the declarations the planner rejects: a scalar of size 0 or above 32, and
\* two manual fields on one slot
rejected(fields) ==
    \/ \E i \in 1..Len(fields) :
          IsScalar(fields[i]) /\ (size_of(fields[i].ty) = 0 \/ size_of(fields[i].ty) > SlotBytes)
    \/ \E i \in 1..Len(fields), j \in 1..Len(fields) :
          /\ i < j
          /\ fields[i].assigned.manual /\ fields[j].assigned.manual
          /\ fields[i].assigned.slot = fields[j].assigned.slot

\* two allocated fields overlap: same slot, and byte intervals that meet
collides(a, b) ==
    /\ a.slot = b.slot
    /\ a.offset < b.offset + b.size
    /\ b.offset < a.offset + a.size

\* each field checked against every field, itself included
gen_collision_checks_with_self(allocated_fields) ==
    { <<i, j>> : i \in 1..Len(allocated_fields), j \in 1..Len(allocated_fields) }

\* gen_collision_checks: one check function per field, against the other
\* fields; the checks are kept as the pairs of fields they compare
gen_collision_checks(allocated_fields) ==
    { p \in (1..Len(allocated_fields)) \X (1..Len(allocated_fields)) : p[1] # p[2] }

\* the slots module with one slot per field, numbered as declared
gen_slots_module_slot_per_field(allocated_fields) ==
    [constants |-> { [name |-> allocated_fields[i].name, SLOT |-> i - 1, OFFSET |-> 0] :
                        i \in 1..Len(allocated_fields) },
     checks |-> gen_collision_checks(allocated_fields)]

\* gen_slots_module: SLOT and OFFSET constants of every field, and the checks
gen_slots_module(allocated_fields) ==
    [constants |-> { [name |-> allocated_fields[i].name, SLOT |-> allocated_fields[i].slot,
                      OFFSET |-> allocated_fields[i].offset] :
                        i \in 1..Len(allocated_fields) },
     checks |-> gen_collision_checks(allocated_fields)]

\* slots::__check_all_collisions(): TRUE when no check fires
check_all_collisions(slots, allocated_fields) ==
    \A p \in slots.checks : ~collides(allocated_fields[p[1]], allocated_fields[p[2]])

\* gen_struct: the handler type of each field
gen_struct(allocated_fields) ==
    [i \in 1..Len(allocated_fields) |->
        [name |-> allocated_fields[i].name, handler |-> allocated_fields[i].kind]]

\* Rc: the heap maps a handle to the value it owns and its strong count
Rc_new(heap, value) ==
    LET h == Cardinality(DOMAIN heap) + 1 IN
    [handle |-> h, heap |-> [x \in DOMAIN heap \cup {h} |->
                                IF x = h THEN [value |-> value, strong |-> 1] ELSE heap[x]]]

SlotConst(slots, name) == (CHOOSE k \in slots.constants : k.name = name).SLOT

\* _new with every handler given an Rc::new of its own
gen_constructor_rc_per_handler(allocated_fields, slots, address, heap) ==
    LET n == Len(allocated_fields)
        address_rc == Rc_new(heap, address)
    IN  [handlers |-> [i \in 1..n |->
                        [name |-> allocated_fields[i].name,
                         slot |-> SlotConst(slots, allocated_fields[i].name),
                         address |-> address_rc.handle + i]],
         address |-> address_rc.handle,
         heap |-> [x \in DOMAIN heap \cup (address_rc.handle .. address_rc.handle + n) |->
                    IF x \in DOMAIN heap THEN heap[x] ELSE [value |-> address, strong |-> 1]]]

\* the generated _new(address), after the collision checks: address_rc is
\* Rc::new(address); each handler is made with its SLOT constant and
\* Rc::clone(&address_rc); the struct keeps address_rc
gen_constructor(allocated_fields, slots, address, heap) ==
    LET n == Len(allocated_fields)
        address_rc == Rc_new(heap, address)
    IN  [handlers |-> [i \in 1..n |->
                        [name |-> allocated_fields[i].name,
                         slot |-> SlotConst(slots, allocated_fields[i].name),
                         address |-> address_rc.handle]],
         address |-> address_rc.handle,
         heap |-> [address_rc.heap EXCEPT ![address_rc.handle].strong = @ + n]]

\* ContractStorage::address(&self): *self.address
ContractStorage_address(instance, heap) == heap[instance.address].value

NoInstance == [handlers |-> <<>>, address |-> 0]

LayoutInit ==
    /\ NoRun
    /\ build = [stage |-> "decl", fields |-> <<>>, layout |-> <<>>,
                slots |-> gen_slots_module(<<>>), struct |-> <<>>,
                instance |-> NoInstance, heap |-> <<>>, given |-> 0, seen |-> 0]

\* the struct declares one more field
DeclareField(f) ==
    /\ build.stage = "decl"
    /\ Len(build.fields) < MaxFields
    /\ build' = [build EXCEPT !.fields = Append(@, f)]
    /\ UNCHANGED run_vars

\* the planner allocates the fields, or rejects the struct; the struct and
\* the slots module are generated from the allocated fields
Plan ==
    /\ build.stage = "decl"
    /\ IF rejected(build.fields)
       THEN build' = [build EXCEPT !.stage = "rejected"]
       ELSE LET allocated_fields == allocate(build.fields, Len(build.fields)).out IN
            build' = [build EXCEPT !.stage = "planned",
                                   !.layout = allocated_fields,
                                   !.slots = gen_slots_module(allocated_fields),
                                   !.struct = gen_struct(allocated_fields)]
    /\ UNCHANGED run_vars

\* Contract::_new(address) in a debug build: the collision checks, then the instance
New(address) ==
    /\ build.stage = "planned"
    /\ IF ~check_all_collisions(build.slots, build.layout)
       THEN build' = [build EXCEPT !.stage = "LayoutCollision"]
       ELSE LET r == gen_constructor(build.layout, build.slots, address, build.heap) IN
            build' = [build EXCEPT !.stage = "live",
                                   !.instance = [handlers |-> r.handlers, address |-> r.address],
                                   !.heap = r.heap,
                                   !.given = address]
    /\ UNCHANGED run_vars

\* contract.address()
Address ==
    /\ build.stage = "live"
    /\ build' = [build EXCEPT !.seen = ContractStorage_address(build.instance, build.heap)]
    /\ UNCHANGED run_vars

\* the instance is dropped at the end of the call: its handlers and its own
\* handle release the address
DropInstance ==
    /\ build.stage = "live"
    /\ build' = [build EXCEPT !.stage = "planned", !.instance = NoInstance,
                               !.heap = <<>>, !.given = 0, !.seen = 0]
    /\ UNCHANGED run_vars

LayoutNext ==
    \/ \E f \in FieldDecls : DeclareField(f)
    \/ Plan
    \/ \E address \in TokenAddresses : New(address)
    \/ Address
    \/ DropInstance

LayoutSpec == LayoutInit /\ [][LayoutNext]_vars

----------------------------------------------------------------------------
(* Properties of the layout, under LayoutSpec *)

C18_Fields ==
    << FieldDecl("Slot", "u8", Auto), FieldDecl("Slot", "u64", Auto),
       FieldDecl("Slot", "Address", Auto), FieldDecl("Mapping", "U256", Auto) >>

C18_Const(name, slot, offset) ==
    [name |-> name, SLOT |-> slot, OFFSET |-> offset] \in build.slots.constants

C18_Widths ==
    /\ build.layout[1].size = 1
    /\ build.layout[2].size = 8
    /\ build.layout[3].size = 20

C20_Shared ==
    build.stage = "live" =>
        /\ Len(build.instance.handlers) = Len(build.layout)
        /\ \A i \in 1..Len(build.instance.handlers) :
              /\ build.instance.handlers[i].address = build.instance.address
              /\ build.heap[build.instance.handlers[i].address].value = build.given
        /\ ContractStorage_address(build.instance, build.heap) = build.given
        /\ build.heap[build.instance.address].strong = Len(build.layout) + 1
        /\ DOMAIN build.heap = {build.instance.address}
        /\ build.seen # 0 => build.seen = build.given

\* C20: in an instance built by _new(address) every handler holds a clone of
\* the one shared handle, so the handlers and address() see the address given
\* to _new, and the address does not change while the instance lives.
C20_OneSharedAddress ==
    [][ /\ C20_Shared
        /\ C20_Shared'
        /\ (build.stage = "live" /\ build'.stage = "live") =>
              /\ build'.instance = build.instance
              /\ build'.heap = build.heap
              /\ build'.given = build.given ]_vars

\* address() was called on an instance with two handlers made on REWARDS_ADDRESS
C20_Witness ==
    /\ build.stage = "live"
    /\ build.given = REWARDS_ADDRESS
    /\ build.seen = REWARDS_ADDRESS
    /\ Len(build.instance.handlers) = 2
    /\ build.instance.handlers[1].address = build.instance.handlers[2].address

----------------------------------------------------------------------------
(* tests::test_parse_interface_itip20, under MacroSpec *)

\* Iterator::find: the first entry of that name, or none
find(entries, name) ==
    LET hits == {i \in 1..Len(entries) : entries[i].name = name} IN
    IF hits = {} THEN [some |-> FALSE, val |-> [name |-> name, params |-> <<>>]]
    ELSE [some |-> TRUE, val |-> entries[CHOOSE i \in hits : \A j \in hits : i <= j]]

\* the interfaces of the attribute named ITIP20, by any path
C21_ITIP20(i) ==
    /\ i \in 1..Len(build.parsed)
    /\ build.attrs[i] \in { <<"ITIP20">>, <<"crate", "ITIP20">> }

----------------------------------------------------------------------------
(* Manual slots and mappings, under LayoutSpec *)

\* two manual fields name one slot
C22_ManualConflict ==
    \E i \in 1..Len(build.fields), j \in 1..Len(build.fields) :
        /\ i # j
        /\ build.fields[i].assigned.manual /\ build.fields[j].assigned.manual
        /\ build.fields[i].assigned.slot = build.fields[j].assigned.slot

----------------------------------------------------------------------------
(* tempo-bench: config.rs and the settings of MaxTpsArgs::run *)

\* most nested calls of from_file the stack of the thread holds; more than
\* there are config files, so that only a cycle can exhaust it
MaxLoads == 4

\* Option<T>
None == [some |-> FALSE]
Some(v) == [some |-> TRUE, val |-> v]

\* Option::or
Option_or(self, optb) == IF self.some THEN self ELSE optb

\* Option::unwrap_or
Option_unwrap_or(self, default) == IF self.some THEN self.val ELSE default

\* the config files of the directory, and a name no file has
Paths == {"a.toml", "b.toml", "c.toml"}
Missing == "missing.toml"

\* what a file sets a field to, when it sets it: a value that names the file
FileValue(path) ==
    CASE path = "a.toml" -> 1
      [] path = "b.toml" -> 2
      [] path = "c.toml" -> 3
\* what the command line sets a field to, when it sets it
CliValue == 9

DefaultDuration == 30

\* BenchmarkConfig, with the fields initial_ratelimit and duration
BenchmarkConfig(initial_ratelimit, duration) ==
    [initial_ratelimit |-> initial_ratelimit, duration |-> duration]

\* BenchmarkConfig::default()
BenchmarkConfig_default == BenchmarkConfig(None, None)

\* BenchConfig
BenchConfig(inherits, benchmark) == [inherits |-> inherits, benchmark |-> benchmark]

\* BenchConfig::default()
BenchConfig_default == BenchConfig(None, None)

\* toml::from_str of the files a directory can hold
FileContents(path) ==
    { BenchConfig(inherits, benchmark) :
        inherits \in {None} \cup {Some(q) : q \in Paths \cup {Missing}},
        benchmark \in {None} \cup
            { Some(BenchmarkConfig(r, d)) :
                r \in {None, Some(FileValue(path))}, d \in {None, Some(FileValue(path))} } }

\* BenchmarkConfig::merge with the parent taking precedence
BenchmarkConfig_merge_parent_first(self, parent) ==
    BenchmarkConfig(Option_or(parent.initial_ratelimit, self.initial_ratelimit),
                    Option_or(parent.duration, self.duration))

\* BenchmarkConfig::merge: self takes precedence
BenchmarkConfig_merge(self, parent) ==
    BenchmarkConfig(Option_or(self.initial_ratelimit, parent.initial_ratelimit),
                    Option_or(self.duration, parent.duration))

\* BenchConfig::merge: self takes precedence
BenchConfig_merge(self, parent) ==
    BenchConfig(
        Option_or(self.inherits, parent.inherits),
        CASE self.benchmark.some /\ parent.benchmark.some ->
                Some(BenchmarkConfig_merge(self.benchmark.val, parent.benchmark.val))
          [] self.benchmark.some /\ ~parent.benchmark.some -> self.benchmark
          [] ~self.benchmark.some /\ parent.benchmark.some -> parent.benchmark
          [] OTHER -> None)

\* BenchConfig::resolve_parent_path: every file is in one directory
resolve_parent_path(current_path, inherits) ==
    IF inherits \notin Paths THEN [ok |-> FALSE, val |-> inherits] ELSE [ok |-> TRUE, val |-> inherits]

\* the command line: --config, --tps, --duration
MaxTpsArgs == [config : {None, Some("a.toml")}, tps : {None, Some(CliValue)},
               duration : {None, Some(CliValue)}]

NoLib ==
    /\ stack = <<>>
    /\ storage = <<>>
    /\ frames = <<>>
    /\ pc = "run"
    /\ twr = NoTwr
    /\ ret = "none"
    /\ writes = 0
    /\ lim = [depth |-> 0, writes |-> 0, mints |-> {}, pairs |-> {}, amounts |-> {}]
    /\ build = NoBuild

lib_vars == <<stack, storage, frames, pc, twr, ret, writes, lim, build>>

\* MaxTpsArgs::run is entered with some command line, in a directory of
\* some config files
ConfigInit ==
    /\ NoLib
    /\ \E args \in MaxTpsArgs :
       \E a \in FileContents("a.toml"), b \in FileContents("b.toml"), c \in FileContents("c.toml") :
          tool = [stage |-> "run", args |-> args,
                  fs |-> [q \in Paths |-> CASE q = "a.toml" -> a [] q = "b.toml" -> b [] OTHER -> c],
                  calls |-> <<>>, loads |-> 0, config |-> BenchConfig_default,
                  error |-> "none",
                  settings |-> [tps |-> 0, duration |-> 0]]

\* from_file(path) is entered: the file is read and parsed; a config that
\* does not inherit is ready to be returned
Load(path) ==
    [path |-> path, config |-> tool.fs[path], ready |-> ~tool.fs[path].inherits.some]

\* run without --config: BenchConfig::default()
NoConfigFile ==
    /\ tool.stage = "run"
    /\ ~tool.args.config.some
    /\ tool' = [tool EXCEPT !.stage = "loaded", !.config = BenchConfig_default]
    /\ UNCHANGED lib_vars

\* run with --config: BenchConfig::from_file(config_path) is called
FromFile ==
    /\ tool.stage = "run"
    /\ tool.args.config.some
    /\ tool' = [tool EXCEPT !.stage = "from_file",
                            !.calls = <<Load(tool.args.config.val)>>,
                            !.loads = 1]
    /\ UNCHANGED lib_vars

\* the innermost from_file has a config that inherits: the parent path is
\* resolved and from_file is called on it; a parent that does not exist is an
\* error, which every caller passes on with `?`
FromFileParent ==
    /\ tool.stage = "from_file"
    /\ LET top == tool.calls[Len(tool.calls)] IN
        /\ ~top.ready
        /\ Len(tool.calls) < MaxLoads
        /\ LET parent_path == resolve_parent_path(top.path, top.config.inherits.val) IN
            IF ~parent_path.ok
            THEN tool' = [tool EXCEPT !.stage = "err", !.calls = <<>>,
                                      !.error = "ParentNotFound"]
            ELSE tool' = [tool EXCEPT !.calls = Append(@, Load(parent_path.val)),
                                      !.loads = @ + 1]
    /\ UNCHANGED lib_vars

\* one more nested from_file than the stack of the thread can hold: the
\* process is aborted
StackOverflow ==
    /\ tool.stage = "from_file"
    /\ ~tool.calls[Len(tool.calls)].ready
    /\ Len(tool.calls) = MaxLoads
    /\ tool' = [tool EXCEPT !.stage = "stack_overflow"]
    /\ UNCHANGED lib_vars

\* the innermost from_file returns Ok(config): to run, or to the from_file
\* that called it, which merges it as the parent and is ready to return
FromFileReturn ==
    /\ tool.stage = "from_file"
    /\ LET n == Len(tool.calls)
           top == tool.calls[n]
       IN
        /\ top.ready
        /\ IF n = 1
           THEN tool' = [tool EXCEPT !.stage = "loaded", !.calls = <<>>,
                                     !.config = top.config]
           ELSE tool' = [tool EXCEPT
                    !.calls = [SubSeq(tool.calls, 1, n - 1) EXCEPT
                                ![n - 1] = [path |-> @.path,
                                            config |-> BenchConfig_merge(@.config, top.config),
                                            ready |-> TRUE]]]
    /\ UNCHANGED lib_vars

\* the settings of run: the command line, else the config, else the default;
\* tps has no default
Resolve ==
    /\ tool.stage = "loaded"
    /\ LET benchmark_config == Option_unwrap_or(tool.config.benchmark, BenchmarkConfig_default)
           tps == Option_or(tool.args.tps, benchmark_config.initial_ratelimit)
           duration == Option_unwrap_or(Option_or(tool.args.duration, benchmark_config.duration),
                                        DefaultDuration)
       IN  IF ~tps.some
           THEN tool' = [tool EXCEPT !.stage = "err", !.error = "TpsNotSpecified"]
           ELSE tool' = [tool EXCEPT !.stage = "resolved",
                                     !.settings = [tps |-> tps.val, duration |-> duration]]
    /\ UNCHANGED lib_vars

ConfigNext ==
    \/ NoConfigFile
    \/ FromFile
    \/ FromFileParent
    \/ StackOverflow
    \/ FromFileReturn
    \/ Resolve

ConfigSpec == ConfigInit /\ [][ConfigNext]_vars

\* the runs of ConfigSpec in which a step that can be taken is taken
ConfigLiveSpec == ConfigSpec /\ WF_vars(ConfigNext)

----------------------------------------------------------------------------
(* Properties of the settings, under ConfigSpec *)

\* the value of the nearest file of the inherits chain from `path` that sets
\* the field, looking at no more than `fuel` files
RECURSIVE C24_Nearest(_, _, _)
C24_Nearest(path, field, fuel) ==
    IF fuel = 0 \/ path \notin Paths THEN None
    ELSE LET file == tool.fs[path] IN
         IF file.benchmark.some /\ file.benchmark.val[field].some
         THEN file.benchmark.val[field]
         ELSE IF file.inherits.some
              THEN C24_Nearest(file.inherits.val, field, fuel - 1)
              ELSE None

\* the value of the config files for a field: none without --config
C24_FromConfig(field) ==
    IF tool.args.config.some
    THEN C24_Nearest(tool.args.config.val, field, Cardinality(Paths))
    ELSE None

\* run got past the loading of the config
C24_Loaded == tool.stage = "resolved" \/ (tool.stage = "err" /\ tool.error = "TpsNotSpecified")

\* C24 as claimed: once the config is loaded every setting resolves to the
\* command line's value if given, else the nearest file's, else a built-in
\* default.
C24_Original ==
    C24_Loaded =>
        /\ tool.stage = "resolved"
        /\ tool.settings.duration =
              Option_unwrap_or(Option_or(tool.args.duration, C24_FromConfig("duration")),
                               DefaultDuration)
        /\ \E default \in 0..CliValue :
              tool.settings.tps =
                Option_unwrap_or(Option_or(tool.args.tps, C24_FromConfig("initial_ratelimit")),
                                 default)

\* C24, amended: duration resolves to the command line's value if given,
\* else the value of the nearest file of the inherits chain that sets it
\* (child before parent before grandparent), else the default 30; tps
\* resolves the same way from --tps and initial_ratelimit but has no
\* default: with neither, run fails with "TPS must be specified".
C24_SettingsPrecedence ==
    C24_Loaded =>
        LET tps == Option_or(tool.args.tps, C24_FromConfig("initial_ratelimit"))
            duration == Option_or(tool.args.duration, C24_FromConfig("duration"))
        IN  IF tps.some
            THEN /\ tool.stage = "resolved"
                 /\ tool.settings.tps = tps.val
                 /\ tool.settings.duration = Option_unwrap_or(duration, DefaultDuration)
            ELSE tool.stage = "err"

\* the child sets nothing, the parent sets both fields, the grandparent sets
\* both too: without command-line values the parent's are taken
C24_Witness ==
    /\ tool.stage = "resolved"
    /\ tool.args = [config |-> Some("a.toml"), tps |-> None, duration |-> None]
    /\ tool.fs["a.toml"] = BenchConfig(Some("b.toml"), None)
    /\ tool.fs["b.toml"].inherits = Some("c.toml")
    /\ tool.fs["c.toml"].benchmark = Some(BenchmarkConfig(Some(3), Some(3)))
    /\ tool.settings = [tps |-> 2, duration |-> 2]

\* C29: every call of from_file returns: run gets the merged config, or an
\* error, also when the inherits references form a cycle.
C29_FromFileTerminates ==
    (tool.stage = "from_file") ~> (tool.stage \in {"loaded", "resolved", "err"})

----------------------------------------------------------------------------
(* tempo-bench: send_transactions and the end of MaxTpsArgs::run *)

\* most workers and cores, highest tps and longest duration (seconds)
MaxThreads == 3
MaxTps == 2
MaxDuration == 2

\* usize::div_ceil
div_ceil(a, b) == (a + b - 1) \div b

\* usize::min
min(a, b) == IF a <= b THEN a ELSE b

\* generate_transactions: txs_per_sender transactions for each account
generate_transactions(total_txs, num_accounts) ==
    LET txs_per_sender == total_txs \div num_accounts IN
    IF txs_per_sender > 0 THEN [ok |-> TRUE, len |-> txs_per_sender * num_accounts]
    ELSE [ok |-> FALSE, len |-> 0]

\* the segment of thread thread_id
Segment(thread_id, chunk_size, len) ==
    LET start == thread_id * chunk_size IN
    [start |-> start, end |-> min(start + chunk_size, len)]

\* run has its settings and its transactions and calls send_transactions on
\* a machine with some cores
SendInit ==
    /\ NoLib
    /\ \E tps \in 1..MaxTps, duration \in 1..MaxDuration, accounts \in 1..2,
          workers \in 1..MaxThreads, cores \in 1..MaxThreads :
        LET transactions == generate_transactions(tps * duration, accounts)
            num_sender_threads == min(workers, cores)
        IN  /\ transactions.ok
            /\ tool = [stage |-> "spawn", tps |-> tps, duration |-> duration,
                       len |-> transactions.len,
                       num_sender_threads |-> num_sender_threads,
                       chunk_size |-> div_ceil(transactions.len, num_sender_threads),
                       threads |-> <<>>, now |-> 0, wake_at |-> 0, permits |-> tps,
                       tx_counter |-> 0]

\* one round of the loop over thread_id: the segment is computed and the
\* thread spawned
Spawn ==
    /\ tool.stage = "spawn"
    /\ Len(tool.threads) < tool.num_sender_threads
    /\ LET thread_id == Len(tool.threads)
           seg == Segment(thread_id, tool.chunk_size, tool.len)
       IN  tool' = [tool EXCEPT !.threads =
                        Append(@, [start |-> seg.start, end |-> seg.end, next |-> seg.start,
                                   state |-> "spawned", since |-> 0])]
    /\ UNCHANGED lib_vars

\* the loop is over: send_transactions returns Ok(()) and run sleeps for
\* `duration` seconds
Sleep ==
    /\ tool.stage = "spawn"
    /\ Len(tool.threads) = tool.num_sender_threads
    /\ tool' = [tool EXCEPT !.stage = "sleep", !.wake_at = tool.now + tool.duration]
    /\ UNCHANGED lib_vars

\* a spawned thread takes its slice transactions[start..end]: a panic when
\* start is above end
ThreadStart(i) ==
    /\ tool.stage \in {"spawn", "sleep"}
    /\ i \in 1..Len(tool.threads)
    /\ tool.threads[i].state = "spawned"
    /\ LET t == tool.threads[i] IN
        tool' = [tool EXCEPT !.threads[i].state =
                    IF t.start > t.end \/ t.end > tool.len THEN "panicked"
                    ELSE IF t.start = t.end THEN "done"
                    ELSE "ready"]
    /\ UNCHANGED lib_vars

\* rate_limiter.until_ready() lets the thread through and the send begins
SendRaw(i) ==
    /\ tool.stage \in {"spawn", "sleep"}
    /\ i \in 1..Len(tool.threads)
    /\ tool.threads[i].state = "ready"
    /\ tool.permits > 0
    /\ tool' = [tool EXCEPT !.threads[i].state = "sending",
                            !.threads[i].since = tool.now,
                            !.permits = @ - 1]
    /\ UNCHANGED lib_vars

\* the send ends, within the timeout of one second: accepted (counted),
\* refused or timed out; the loop goes to the next transaction
SendDone(i, accepted) ==
    /\ tool.stage \in {"spawn", "sleep"}
    /\ i \in 1..Len(tool.threads)
    /\ tool.threads[i].state = "sending"
    /\ LET t == tool.threads[i] IN
        tool' = [tool EXCEPT !.threads[i].next = t.next + 1,
                             !.threads[i].state = IF t.next + 1 = t.end THEN "done" ELSE "ready",
                             !.tx_counter = IF accepted THEN @ + 1 ELSE @]
    /\ UNCHANGED lib_vars

\* one second passes: the rate limiter has its quota again.  The threads do
\* not idle: a spawned thread has started, a thread that may send is
\* sending, and a send begun a second ago is over.
Tick ==
    /\ tool.stage = "sleep"
    /\ tool.now < tool.wake_at
    /\ \A i \in 1..Len(tool.threads) :
        LET t == tool.threads[i] IN
        /\ t.state # "spawned"
        /\ t.state = "ready" => tool.permits = 0
        /\ t.state = "sending" => t.since = tool.now
    /\ tool' = [tool EXCEPT !.now = @ + 1, !.permits = tool.tps]
    /\ UNCHANGED lib_vars

\* the sleep is over: run prints "Finished sending transactions" and returns
\* Ok(()), which ends the process and its threads
Finished ==
    /\ tool.stage = "sleep"
    /\ tool.now >= tool.wake_at
    /\ tool' = [tool EXCEPT !.stage = "finished"]
    /\ UNCHANGED lib_vars

SendNext ==
    \/ Spawn
    \/ Sleep
    \/ \E i \in 1..MaxThreads : ThreadStart(i)
    \/ \E i \in 1..MaxThreads : SendRaw(i)
    \/ \E i \in 1..MaxThreads, accepted \in BOOLEAN : SendDone(i, accepted)
    \/ Tick
    \/ Finished

SendSpec == SendInit /\ [][SendNext]_vars

\* C25: when run prints "Finished sending transactions" and returns Ok, every
\* thread spawned by send_transactions has ended its loop over its range.
C25_RunWaitsForSenders ==
    tool.stage = "finished" =>
        \A i \in 1..Len(tool.threads) : tool.threads[i].state \in {"done", "panicked"}

\* C28: the ranges of the sender threads partition the transactions: each
\* has start <= end <= len, they are pairwise disjoint, together they hold
\* every index, and no thread slices out of bounds.
C28_RangesPartitionTransactions ==
    /\ \A i \in 1..Len(tool.threads) :
        /\ tool.threads[i].start <= tool.threads[i].end
        /\ tool.threads[i].end <= tool.len
        /\ tool.threads[i].state # "panicked"
    /\ \A i \in 1..Len(tool.threads), j \in 1..Len(tool.threads) :
        i < j => tool.threads[i].end <= tool.threads[j].start
    /\ Len(tool.threads) = tool.num_sender_threads =>
        \A k \in 0..(tool.len - 1) :
            \E i \in 1..Len(tool.threads) :
                tool.threads[i].start <= k /\ k < tool.threads[i].end

----------------------------------------------------------------------------
(* tempo-state-dump: main.rs *)

\* most accounts of a run, and of each of two runs side by side
MaxAccounts == 3
ReproAccounts == 2

\* the value of --seed, when given
DumpSeed == 7
\* seeds that from_os_rng can give
OsEntropy == {100, 101}

\* the first line of the output: the dummy state root
StateRoot == <<"root">>

\* generate_account: the k-th account drawn from a generator is a function of
\* the generator's seed and of k
generate_account(generator) == <<generator.seed, generator.drawn + 1>>

\* the seeds StateGenerator::new(thread_args) can start from, thread_args.seed
\* being the seed of the command line plus seed_inc.fetch_add(1)
StateGenerator_new(seed, seed_inc) ==
    IF seed.some THEN {seed.val + seed_inc} ELSE OsEntropy

\* the closure given to thread::spawn ends keeping its tx
closure_end_keeps_tx(run) ==
    [run EXCEPT !.producer = "returned"]

\* the closure given to thread::spawn ends: the tx moved into it is dropped
closure_end(run) ==
    [run EXCEPT !.producer = "returned", !.senders = @ - 1]

\* main after thread::spawn: the root line is written, the channel is empty
\* and its one Sender is owned by the generation thread
Run(seed, total) ==
    [seed |-> seed, total |-> total, seed_inc |-> 0, unclaimed |-> total,
     jobs |-> <<>>, senders |-> 1, channel |-> <<>>, generated |-> <<>>,
     output |-> <<StateRoot>>, producer |-> "running", main |-> "writing"]

\* one run, of up to MaxAccounts accounts, with or without --seed
DumpInit ==
    /\ NoLib
    /\ \E seed \in {None, Some(DumpSeed)}, total \in 0..MaxAccounts :
        tool = [stage |-> "dump", runs |-> <<Run(seed, total)>>]

\* two runs with the same arguments and the same --seed
ReproInit ==
    /\ NoLib
    /\ \E total \in 1..ReproAccounts :
        tool = [stage |-> "dump",
                runs |-> <<Run(Some(DumpSeed), total), Run(Some(DumpSeed), total)>>]

\* the parallel iterator starts a job on n of the indices not yet given out:
\* init makes the job's generator and clones tx
JobInit(r, n) ==
    /\ r \in 1..Len(tool.runs)
    /\ LET run == tool.runs[r] IN
        /\ run.producer = "running"
        /\ n \in 1..run.unclaimed
        /\ \E seed \in StateGenerator_new(run.seed, run.seed_inc) :
            tool' = [tool EXCEPT !.runs[r] =
                        [run EXCEPT !.seed_inc = @ + 1,
                                    !.unclaimed = @ - n,
                                    !.senders = @ + 1,
                                    !.jobs = Append(@, [seed |-> seed, drawn |-> 0,
                                                        left |-> n, live |-> TRUE])]]
    /\ UNCHANGED lib_vars

\* the job handles one index: it generates an account and sends it
Generate(r, j) ==
    /\ r \in 1..Len(tool.runs)
    /\ LET run == tool.runs[r] IN
        /\ j \in 1..Len(run.jobs)
        /\ run.jobs[j].live
        /\ run.jobs[j].left > 0
        /\ LET account == generate_account(run.jobs[j]) IN
            tool' = [tool EXCEPT !.runs[r] =
                        [run EXCEPT !.jobs[j].drawn = @ + 1,
                                    !.jobs[j].left = @ - 1,
                                    !.generated = Append(@, account),
                                    !.channel = Append(@, account)]]
    /\ UNCHANGED lib_vars

\* the job is over: its generator and its clone of tx are dropped
JobEnd(r, j) ==
    /\ r \in 1..Len(tool.runs)
    /\ LET run == tool.runs[r] IN
        /\ j \in 1..Len(run.jobs)
        /\ run.jobs[j].live
        /\ run.jobs[j].left = 0
        /\ tool' = [tool EXCEPT !.runs[r] =
                        [run EXCEPT !.jobs[j].live = FALSE, !.senders = @ - 1]]
    /\ UNCHANGED lib_vars

\* try_for_each_init returns Ok(()) and the generation thread ends
ProducerReturn(r) ==
    /\ r \in 1..Len(tool.runs)
    /\ LET run == tool.runs[r] IN
        /\ run.producer = "running"
        /\ run.unclaimed = 0
        /\ \A j \in 1..Len(run.jobs) : ~run.jobs[j].live
        /\ tool' = [tool EXCEPT !.runs[r] = closure_end(run)]
    /\ UNCHANGED lib_vars

\* the writer loop takes an account from the channel and writes its line
Write(r) ==
    /\ r \in 1..Len(tool.runs)
    /\ LET run == tool.runs[r] IN
        /\ run.main = "writing"
        /\ run.channel # <<>>
        /\ tool' = [tool EXCEPT !.runs[r] =
                        [run EXCEPT !.channel = Tail(@),
                                    !.output = Append(@, Head(run.channel))]]
    /\ UNCHANGED lib_vars

\* rx.iter() ends: the channel is empty and every Sender is dropped
LoopEnd(r) ==
    /\ r \in 1..Len(tool.runs)
    /\ LET run == tool.runs[r] IN
        /\ run.main = "writing"
        /\ run.channel = <<>>
        /\ run.senders = 0
        /\ tool' = [tool EXCEPT !.runs[r].main = "joining"]
    /\ UNCHANGED lib_vars

\* handle.join() returns and main prints "State dump written to .."
Join(r) ==
    /\ r \in 1..Len(tool.runs)
    /\ LET run == tool.runs[r] IN
        /\ run.main = "joining"
        /\ run.producer = "returned"
        /\ tool' = [tool EXCEPT !.runs[r].main = "done"]
    /\ UNCHANGED lib_vars

DumpNext ==
    \/ \E r \in 1..2, n \in 1..MaxAccounts : JobInit(r, n)
    \/ \E r \in 1..2, j \in 1..MaxAccounts : Generate(r, j)
    \/ \E r \in 1..2, j \in 1..MaxAccounts : JobEnd(r, j)
    \/ \E r \in 1..2 : ProducerReturn(r)
    \/ \E r \in 1..2 : Write(r)
    \/ \E r \in 1..2 : LoopEnd(r)
    \/ \E r \in 1..2 : Join(r)

\* one run, in which a step that can be taken is taken
DumpLiveSpec == DumpInit /\ [][DumpNext]_vars /\ WF_vars(DumpNext)

\* two runs side by side
ReproSpec == ReproInit /\ [][DumpNext]_vars

\* C26: two runs with the same arguments and the same --seed generate the
\* same set of accounts, however the parallel iterator splits the work.
C26_SameSeedSameAccounts ==
    (tool.runs[1].main = "done" /\ tool.runs[2].main = "done") =>
        { tool.runs[1].generated[i] : i \in 1..Len(tool.runs[1].generated) }
            = { tool.runs[2].generated[i] : i \in 1..Len(tool.runs[2].generated) }

\* how many times x is in the sequence
C30_Count(seq, x) == Cardinality({i \in 1..Len(seq) : seq[i] = x})

\* the lines written so far are the root line and then sent accounts, each
\* as often as it was generated at most; once main is done the generation
\* thread has returned and the account lines are the generated accounts
C30_Output ==
    LET run == tool.runs[1]
        lines == Tail(run.output)
    IN  /\ Head(run.output) = StateRoot
        /\ \A i \in 1..Len(lines) :
              C30_Count(lines, lines[i]) + C30_Count(run.channel, lines[i])
                  = C30_Count(run.generated, lines[i])
        /\ run.main \in {"joining", "done"} =>
            /\ Len(lines) = run.total
            /\ Len(run.generated) = run.total
            /\ run.channel = <<>>
            /\ \A i \in 1..Len(run.generated) :
                  C30_Count(lines, run.generated[i])
                      = C30_Count(run.generated, run.generated[i])
        /\ run.main = "done" => run.producer = "returned"

\* C30: when no send or write fails the writer loop ends and main reports
\* success; the output is then the state-root line followed by exactly
\* `accounts` lines, one for each generated account, and main reports
\* success only after the generation thread was joined.
C30_WriterDrainsAndJoins ==
    /\ []C30_Output
    /\ <>(tool.runs[1].main = "done")

\* three accounts by two jobs were written and main is done
C30_Witness ==
    /\ tool.runs[1].main = "done"
    /\ tool.runs[1].total = 3
    /\ Len(tool.runs[1].jobs) = 2
    /\ Len(tool.runs[1].output) = 4
    /\ tool.runs[1].producer = "returned"

----------------------------------------------------------------------------
(* Conservation of the supply, under TokenSpec *)

\* the sum of balance_of over the accounts, on token_address
RECURSIVE C27_Sum(_, _)
C27_Sum(st, accounts) ==
    IF accounts = {} THEN 0
    ELSE LET a == CHOOSE x \in accounts : TRUE IN
         balance_of(<<token_address>>, st, a).val + C27_Sum(st, accounts \ {a})

\* total_supply() is the sum of the balances
C27_Conserved(st) ==
    total_supply(<<token_address>>, st).val = C27_Sum(st, Accounts)

\* C27: a mint, and a transfer of no more than the sender's balance (from
\* and to being equal or not), keep total_supply() equal to the sum of
\* balance_of over all accounts, and the transfer leaves that sum unchanged;
\* so the equality holds after any sequence of such calls.
C27_SupplyIsSumOfBalances ==
    [][ \A from \in Accounts, to \in Accounts, amount \in lim.amounts :
          /\ (Mint(to, amount) /\ frames # <<>> /\ C27_Conserved(storage))
                => C27_Conserved(storage')
          /\ ( /\ Transfer(from, to, amount)
               /\ frames # <<>>
               /\ amount <= balance_of(stack, storage, from).val
               /\ C27_Conserved(storage) )
                => /\ C27_Conserved(storage')
                   /\ C27_Sum(storage', Accounts) = C27_Sum(storage, Accounts) ]_vars

====
